---- MODULE Spec2Model ----
(***************************************************************************)
(* A model of the rhythmpiano core: the ABC-like text codec                *)
(* (src/src/parser.js, the converter in src/unnamed/part_005 and the midi  *)
(* command line tool in src/unnamed/part_000), the file import of         *)
(* src/src/main.js, and the tick-driven sequencer / wait mode / hit        *)
(* judgment of src/src/main.js.                                            *)
(*                                                                         *)
(* Texts are sequences of one-character strings.  JavaScript numbers that  *)
(* the codec computes are exact rationals [n, d] in lowest terms; d = 0    *)
(* stands for the non-finite values (n = 0: NaN, n = 1: Infinity).         *)
(***************************************************************************)
EXTENDS Integers, Sequences, FiniteSets, TLC

VARIABLES
  \* ---- codec pipeline (SpecCodec) ----
  stage, src, abc, parsed, reabc,
  \* ---- converter run (SpecQuant) ----
  qstage, qin, qout,
  \* ---- file import of main.js (SpecImport) ----
  istage, file, href, loadingVisible, menuVisible, alerts,
  \* ---- game state of main.js (Spec) ----
  parsedMelody, parsedAccompaniment,
  melodyIndex, timeSinceLastNote, timeUntilNextNote,
  accompIndex, timeSinceLastAccomp, timeUntilNextAccomp,
  isGameActive, isSongFinished, isWaitMode, isDemoPlaying,
  selectedTrackType, isHalfSpeed, activeNotes, pendingResets, last,
  \* ---- history: the effective time each playhead was given since the restart ----
  melodyTime, accompTime

codecVars == <<stage, src, abc, parsed, reabc>>
quantVars == <<qstage, qin, qout>>
gameVars == <<parsedMelody, parsedAccompaniment, melodyIndex, timeSinceLastNote, timeUntilNextNote, accompIndex, timeSinceLastAccomp, timeUntilNextAccomp, isGameActive, isSongFinished, isWaitMode, isDemoPlaying, selectedTrackType, isHalfSpeed, activeNotes, pendingResets, last, melodyTime, accompTime>>
importVars == <<istage, file, href, loadingVisible, menuVisible, alerts>>
vars == <<codecVars, quantVars, importVars, gameVars>>

(***************************************************************************)
(* Numbers                                                                 *)
(***************************************************************************)
RECURSIVE GCD(_, _)
GCD(a, b) == IF b = 0 THEN a ELSE GCD(b, a % b)

Abs(x) == IF x < 0 THEN -x ELSE x

Min(a, b) == IF a < b THEN a ELSE b

\* the rational n/d in lowest terms; a zero denominator gives NaN or Infinity
Rat(n, d) ==
  IF d = 0 THEN [n |-> IF n = 0 THEN 0 ELSE 1, d |-> 0]
  ELSE LET g == GCD(Abs(n), Abs(d))
           s == IF d < 0 THEN -1 ELSE 1
       IN [n |-> s * (n \div g), d |-> s * (d \div g)]

NaN == [n |-> 0, d |-> 0]

Num(k) == [n |-> k, d |-> 1]

IsFinite(x) == x.d # 0

\* JavaScript's a / b on non-negative numbers and NaN
Div(a, b) == IF a = NaN \/ b = NaN THEN NaN ELSE Rat(a.n * b.d, a.d * b.n)

\* floor of the finite rational n/d, d > 0
Floor(n, d) == n \div d

\* Math.round of the finite rational n/d, d > 0: floor(x + 0.5)
MathRound(n, d) == (2 * n + d) \div (2 * d)

(***************************************************************************)
(* Characters                                                              *)
(***************************************************************************)
UpperLetters == <<"A", "B", "C", "D", "E", "F", "G">>
LowerLetters == <<"a", "b", "c", "d", "e", "f", "g">>
Digits == <<"0", "1", "2", "3", "4", "5", "6", "7", "8", "9">>

Range(s) == {s[i] : i \in DOMAIN s}

IndexOf(s, c) == IF c \in Range(s) THEN CHOOSE i \in DOMAIN s : s[i] = c ELSE 0

IsUpper(c) == c \in Range(UpperLetters)
IsLower(c) == c \in Range(LowerLetters)
IsDigit(c) == c \in Range(Digits)

\* String.prototype.toUpperCase / toLowerCase on one character
ToUpperCase(c) == IF IsLower(c) THEN UpperLetters[IndexOf(LowerLetters, c)] ELSE IF c = "z" THEN "Z" ELSE c
ToLowerCase(c) == IF IsUpper(c) THEN LowerLetters[IndexOf(UpperLetters, c)] ELSE IF c = "Z" THEN "z" ELSE c

LowerText(s) == [i \in DOMAIN s |-> ToLowerCase(s[i])]

DigitValue(c) == IndexOf(Digits, c) - 1

\* Number.prototype.toString of a non-negative integer
RECURSIVE IntToText(_)
IntToText(k) == IF k < 10 THEN <<Digits[k + 1]>> ELSE IntToText(k \div 10) \o <<Digits[(k % 10) + 1]>>

Drop(s, k) == SubSeq(s, k + 1, Len(s))

(***************************************************************************)
(* parseABC (src/src/parser.js)                                            *)
(***************************************************************************)
NoteChars == Range(UpperLetters) \cup Range(LowerLetters) \cup {"z"}
AccidentalChars == {"^", "_"}
OctaveMarks == {",", "'"}
DurationChars == Range(Digits) \cup {"/"}

\* length of the longest prefix of s whose characters are all in set
RECURSIVE SpanLen(_, _)
RECURSIVE FirstToken(_)
SpanLen(s, set) == IF s = <<>> \/ Head(s) \notin set THEN 0 ELSE 1 + SpanLen(Tail(s), set)

\* length of the match of /[\^_]?[A-Ga-gz][,']*[\d\/]*/ at the head of s, 0 when it does not match there
MatchLen(s) ==
  LET a == IF Len(s) >= 2 /\ s[1] \in AccidentalChars /\ s[2] \in NoteChars THEN 1 ELSE 0
  IN IF Len(s) > a /\ s[a + 1] \in NoteChars
     THEN LET k == SpanLen(Drop(s, a + 1), OctaveMarks)
              j == SpanLen(Drop(s, a + 1 + k), DurationChars)
          IN a + 1 + k + j
     ELSE 0

\* abcString.match without the g flag: the first match only
FirstToken(s) ==
  IF s = <<>> THEN <<>>
  ELSE LET m == MatchLen(s)
       IN IF m = 0 THEN FirstToken(Tail(s)) ELSE <<SubSeq(s, 1, m)>>

\* abcString.match(/.../g): the successive leftmost matches
RECURSIVE Tokens(_)
Tokens(s) ==
  IF s = <<>> THEN <<>>
  ELSE LET m == MatchLen(s)
       IN IF m = 0 THEN Tokens(Tail(s)) ELSE <<SubSeq(s, 1, m)>> \o Tokens(Drop(s, m))

RECURSIVE DigitsValue(_, _)
DigitsValue(s, v) == IF s = <<>> \/ ~IsDigit(Head(s)) THEN v ELSE DigitsValue(Tail(s), 10 * v + DigitValue(Head(s)))

\* parseFloat on what can remain of a token: octave marks and digits
ParseFloat(s) == IF s = <<>> \/ ~IsDigit(Head(s)) THEN NaN ELSE Num(DigitsValue(s, 0))

\* the part of s before its first "/"
RECURSIVE UntilSlash(_)
UntilSlash(s) == IF s = <<>> \/ Head(s) = "/" THEN <<>> ELSE <<Head(s)>> \o UntilSlash(Tail(s))

\* section C of parseABC: the duration of the remainder of a token
ParseDuration(remainder) ==
  IF remainder = <<>> THEN Num(1)
  ELSE IF "/" \in Range(remainder)
       THEN LET p0 == UntilSlash(remainder)
                p1 == UntilSlash(Drop(remainder, Len(p0) + 1))
                num == IF p0 = <<>> THEN Num(1) ELSE ParseFloat(p0)
                den == IF p1 = <<>> THEN Num(2) ELSE ParseFloat(p1)
            IN Div(num, den)
       ELSE ParseFloat(remainder)

\* the id of a rest: null
Null == [note |-> "REST", acc |-> "", octave |-> 0]

\* section D of parseABC: flatMap, flats to enharmonic sharps
\* flatMap without the octaveShift of its C entry
FlatMapSameOctave(noteName) ==
  CASE noteName = "D" -> [note |-> "C", acc |-> "#", octaveShift |-> 0]
    [] noteName = "E" -> [note |-> "D", acc |-> "#", octaveShift |-> 0]
    [] noteName = "G" -> [note |-> "F", acc |-> "#", octaveShift |-> 0]
    [] noteName = "A" -> [note |-> "G", acc |-> "#", octaveShift |-> 0]
    [] noteName = "B" -> [note |-> "A", acc |-> "#", octaveShift |-> 0]
    [] noteName = "C" -> [note |-> "B", acc |-> "", octaveShift |-> 0]
    [] noteName = "F" -> [note |-> "E", acc |-> "", octaveShift |-> 0]

FlatMap(noteName) ==
  CASE noteName = "D" -> [note |-> "C", acc |-> "#", octaveShift |-> 0]
    [] noteName = "E" -> [note |-> "D", acc |-> "#", octaveShift |-> 0]
    [] noteName = "G" -> [note |-> "F", acc |-> "#", octaveShift |-> 0]
    [] noteName = "A" -> [note |-> "G", acc |-> "#", octaveShift |-> 0]
    [] noteName = "B" -> [note |-> "A", acc |-> "#", octaveShift |-> 0]
    [] noteName = "C" -> [note |-> "B", acc |-> "", octaveShift |-> -1]
    [] noteName = "F" -> [note |-> "E", acc |-> "", octaveShift |-> 0]

DefaultOctave == 4

\* ParseOctave without the step that starts lowercase letters at octave 5
ParseOctaveUpperOnly(baseNoteChar, remainder) ==
  LET down == SpanLen(remainder, {","})
      up == SpanLen(Drop(remainder, down), {"'"})
  IN [octave |-> DefaultOctave - down + up, used |-> down + up]

\* the octave of a letter followed by the remainder: commas first, then apostrophes
ParseOctave(baseNoteChar, remainder) ==
  LET start == IF baseNoteChar = ToLowerCase(baseNoteChar) THEN DefaultOctave + 1 ELSE DefaultOctave
      down == SpanLen(remainder, {","})
      up == SpanLen(Drop(remainder, down), {"'"})
  IN [octave |-> start - down + up, used |-> down + up]

\* the body of tokens.forEach: one token to one {id, duration}
ParseToken(token) ==
  LET acc0 == IF Head(token) = "^" THEN "#" ELSE IF Head(token) = "_" THEN "b" ELSE ""
      rem0 == IF Head(token) \in {"^", "_", "="} THEN Tail(token) ELSE token
      baseNoteChar == Head(rem0)
      rem1 == Tail(rem0)
      isRest == baseNoteChar = "z"
      oct == IF isRest THEN [octave |-> DefaultOctave, used |-> 0] ELSE ParseOctave(baseNoteChar, rem1)
      rem2 == Drop(rem1, oct.used)
      duration == ParseDuration(rem2)
      name0 == ToUpperCase(baseNoteChar)
      flat == acc0 = "b" /\ ~isRest
      finalId == IF isRest THEN Null
                 ELSE IF flat THEN [note |-> FlatMap(name0).note, acc |-> FlatMap(name0).acc, octave |-> oct.octave + FlatMap(name0).octaveShift]
                 ELSE [note |-> name0, acc |-> acc0, octave |-> oct.octave]
  IN [id |-> finalId, duration |-> duration]

parseABC(abcString) == LET t == Tokens(abcString) IN [i \in DOMAIN t |-> ParseToken(t[i])]

(***************************************************************************)
(* Note names and the keyboard (src/unnamed/part_006, src/src/main.js)     *)
(***************************************************************************)
\* each name as <<letter, accidental>>
ORDERED_NOTE_NAMES == <<<<"C", "">>, <<"C", "#">>, <<"D", "">>, <<"D", "#">>, <<"E", "">>, <<"F", "">>, <<"F", "#">>, <<"G", "">>, <<"G", "#">>, <<"A", "">>, <<"A", "#">>, <<"B", "">>>>

\* noteNameToMidi of the id `${note}${acc}${octave}`, octave >= 0; 0 when the name is not in the table
noteNameToMidi(id) ==
  LET noteIndex == IndexOf(ORDERED_NOTE_NAMES, <<id.note, id.acc>>) - 1
  IN IF noteIndex = -1 \/ id.octave < 0 THEN 0 ELSE 12 * (id.octave + 1) + noteIndex

\* noteNameToMidi(START_NOTE) and noteNameToMidi(END_NOTE): A0 and C8
minMidi == noteNameToMidi([note |-> "A", acc |-> "", octave |-> 0])
maxMidi == noteNameToMidi([note |-> "C", acc |-> "", octave |-> 8])

\* NOTES_DATA.findIndex((n) => n.id === noteData.id): the lane of an id, -1 when it is no key
KeyIndex(id) ==
  LET m == noteNameToMidi(id)
  IN IF id # Null /\ m >= minMidi /\ m <= maxMidi THEN m - minMidi ELSE -1

(***************************************************************************)
(* The encoder (src/unnamed/part_005, src/unnamed/part_000)                *)
(***************************************************************************)
\* flatNames, each spelling as a text
flatNames == <<<<"C">>, <<"_", "D">>, <<"D">>, <<"_", "E">>, <<"E">>, <<"F">>, <<"_", "G">>, <<"G">>, <<"_", "A">>, <<"A">>, <<"_", "B">>, <<"B">>>>

\* the mark appended once per octave below octave 4, and once per octave above octave 5
LowerMark == "."
RaiseMark == "'"

RECURSIVE Repeat(_, _)
Repeat(c, k) == IF k <= 0 THEN <<>> ELSE <<c>> \o Repeat(c, k - 1)

getABCNoteName(midi) ==
  LET noteIndex == midi % 12
      octaveIndex == (midi \div 12) - 1
      baseName == flatNames[noteIndex + 1]
  IN IF octaveIndex = 4 THEN baseName
     ELSE IF octaveIndex = 5 THEN LowerText(baseName)
     ELSE IF octaveIndex < 4 THEN baseName \o Repeat(LowerMark, 4 - octaveIndex)
     ELSE LowerText(baseName) \o Repeat(RaiseMark, octaveIndex - 5)

\* formatIntegerDuration: the value 1 is omitted
formatIntegerDuration(val) == IF val = 1 THEN <<>> ELSE IntToText(val)

\* what formatAbcDuration returns for a duration that rounds to no step: null
NoText == <<"null">>

FractionMark == "~"

\* formatAbcDuration of the finite duration d (third converter): quantized to quarter units
formatAbcDuration(d) ==
  LET steps == MathRound(4 * d.n, d.d)
  IN IF steps <= 0 THEN NoText
     ELSE IF steps = 4 THEN <<>>
     ELSE IF steps % 4 = 0 THEN IntToText(steps \div 4)
     ELSE IF steps % 2 = 0
          THEN (IF steps \div 2 = 1 THEN <<FractionMark>> ELSE IntToText(steps \div 2) \o <<FractionMark, "2">>)
          ELSE (IF steps = 1 THEN <<FractionMark, "4">> ELSE IntToText(steps) \o <<FractionMark, "4">>)

\* while (currentMidi < lo) currentMidi += 12
RECURSIVE ShiftUp(_, _)
ShiftUp(m, lo) == IF m < lo THEN ShiftUp(m + 12, lo) ELSE m

\* while (currentMidi > hi) currentMidi -= 12
RECURSIVE ShiftDown(_, _)
ShiftDown(m, hi) == IF m > hi THEN ShiftDown(m - 12, hi) ELSE m

\* the first loop alone
ShiftUpOnly(m, lo, hi) == ShiftUp(m, lo)

ShiftIntoRange(m, lo, hi) == ShiftDown(ShiftUp(m, lo), hi)

\* the iteration without its early return: an event too short for a step is written without a duration
EmitEventKeepsShort(event, lo, hi) ==
  LET durationString == formatAbcDuration(event.duration)
      written == IF durationString = NoText THEN <<>> ELSE durationString
  IN IF event.type = "rest" THEN <<"z">> \o written
     ELSE getABCNoteName(ShiftIntoRange(event.midi, lo, hi)) \o written

\* one iteration of events.forEach in convertTrackToAbc: the text one event adds
EmitEvent(event, lo, hi) ==
  LET durationString == formatAbcDuration(event.duration)
  IN IF durationString = NoText THEN <<>>
     ELSE IF event.type = "rest" THEN <<"z">> \o durationString
     ELSE getABCNoteName(ShiftIntoRange(event.midi, lo, hi)) \o durationString

\* the "Generate ABC String" loop of convertTrackToAbc
RECURSIVE EmitEvents(_, _, _)
EmitEvents(events, lo, hi) ==
  IF events = <<>> THEN <<>> ELSE EmitEvent(Head(events), lo, hi) \o EmitEvents(Tail(events), lo, hi)

\* the range of the multiplier converter: F3 and E5
MIN_MIDI == 53
MAX_MIDI == 76

\* one iteration of events.forEach in the multiplier converter, finalDuration already rounded
EmitIntegerEvent(event, finalDuration) ==
  IF finalDuration = 0 THEN <<>>
  ELSE IF event.type = "rest" THEN <<"z">> \o formatIntegerDuration(finalDuration)
  ELSE getABCNoteName(ShiftIntoRange(event.midi, MIN_MIDI, MAX_MIDI)) \o formatIntegerDuration(finalDuration)

\* step 4 of the multiplier converter: every event with its duration scaled by m and rounded
RECURSIVE EmitIntegerEvents(_, _)
EmitIntegerEvents(events, m) ==
  IF events = <<>> THEN <<>>
  ELSE EmitIntegerEvent(Head(events), MathRound(Head(events).duration.n * m, Head(events).duration.d)) \o EmitIntegerEvents(Tail(events), m)

(***************************************************************************)
(* The codec pipeline: a track is encoded and the text parsed back, a      *)
(* text is parsed and its events encoded again.                            *)
(***************************************************************************)
MaxTrackLen == 2
MaxDuration == 12
MaxMarks == 3
MaxSteps == 16

NoteEvent(m, d) == [type |-> "note", midi |-> m, duration |-> d]
RestEvent(d) == [type |-> "rest", midi |-> 0, duration |-> d]

\* pitches of the keyboard range, a fifth apart: every pitch class and every octave occurs
PitchSample == {p \in minMidi..maxMidi : (p - minMidi) % 7 = 0} \cup {maxMidi}

TrackDurations == {1, 2, MaxDuration}

TrackEvents == {NoteEvent(m, Num(d)) : m \in PitchSample, d \in TrackDurations} \cup {RestEvent(Num(d)) : d \in TrackDurations}

SeqsUpTo(S, k) == UNION {[1..j -> S] : j \in 1..k}

\* the README's example and the events it stands for
ExampleText == <<"C", "2", "E", "2", "G", "2", "c", "4">>
ExampleTrack == <<NoteEvent(60, Num(2)), NoteEvent(64, Num(2)), NoteEvent(67, Num(2)), NoteEvent(72, Num(4))>>

Tracks == SeqsUpTo(TrackEvents, MaxTrackLen) \cup {ExampleTrack}

\* a letter followed by marks of one kind, optionally flat
MarkChars == {",", "'", ".", "-"}
LetterTexts == {a \o <<l>> \o Repeat(c, k) : a \in {<<>>, <<"_">>}, l \in Range(UpperLetters) \cup Range(LowerLetters), c \in MarkChars, k \in 0..MaxMarks}

\* texts of at most MaxJunkLen characters: letters, a rest, and characters of no token or not in their place
MaxJunkLen == 3
JunkChars == {"C", "g", "z", "H", " ", "|", "^", "=", "2", "/", ","}
JunkTexts == {<<>>} \cup SeqsUpTo(JunkChars, MaxJunkLen)

Texts == LetterTexts \cup {ExampleText} \cup JunkTexts

Source(kind, events, text, steps) == [kind |-> kind, events |-> events, text |-> text, steps |-> steps]

\* every MIDI pitch; the ranges of an octave, of thirteen semitones and of two octaves, and the keyboard
MidiPitches == 0..127
RangeSpans == {11, 12, 23}
MidiRanges ==
  {[lo |-> lo, hi |-> lo + span] : lo \in {l \in MidiPitches : l + 23 \in MidiPitches}, span \in RangeSpans}
    \cup {[lo |-> minMidi, hi |-> maxMidi]}

\* one note of pitch midi converted for the range lo..hi
ClipSource(midi, lo, hi) == [kind |-> "clip", events |-> <<NoteEvent(midi, Num(1))>>, text |-> <<>>, steps |-> 0, lo |-> lo, hi |-> hi]

\* events around the shortest duration that is written: 1/50, 1/10 and 1/8 of a unit next to 1/2 and 1
ShortDurations == {Rat(1, 50), Rat(1, 10), Rat(1, 8), Rat(1, 2), Num(1)}
ShortEvents == {NoteEvent(60, d) : d \in ShortDurations} \cup {RestEvent(d) : d \in ShortDurations}
ShortTrackEvents == SeqsUpTo(ShortEvents, MaxTrackLen)

CodecInputs ==
  {Source("track", t, <<>>, 0) : t \in Tracks}
    \cup {Source("itrack", t, <<>>, 0) : t \in Tracks}
    \cup {Source("dur", <<>>, <<>>, k) : k \in 1..MaxSteps}
    \cup {Source("text", <<>>, t, 0) : t \in Texts}
    \cup {ClipSource(m, r.lo, r.hi) : m \in MidiPitches, r \in MidiRanges}
    \cup {Source("short", t, <<>>, k) : t \in ShortTrackEvents, k \in {0, 1}}

InitCodec ==
  /\ src \in CodecInputs
  /\ stage = IF src.kind = "text" THEN "text" ELSE "input"
  /\ abc = src.text
  /\ parsed = <<>>
  /\ reabc = <<>>

\* convertTrackToAbc's emission over the keyboard range, as main.js calls the converter
ConvertTrack ==
  /\ stage = "input" /\ src.kind = "track"
  /\ abc' = EmitEvents(src.events, minMidi, maxMidi)
  /\ stage' = "text"
  /\ UNCHANGED <<src, parsed, reabc>>
  /\ UNCHANGED <<quantVars, importVars, gameVars>>

\* convertTrackToAbc's emission for the range of the call
ClipPitch ==
  /\ stage = "input" /\ src.kind = "clip"
  /\ abc' = EmitEvents(src.events, src.lo, src.hi)
  /\ stage' = "text"
  /\ UNCHANGED <<src, parsed, reabc>>
  /\ UNCHANGED <<quantVars, importVars, gameVars>>

\* the emission of a track with events too short to be written: by convertTrackToAbc
\* (src.steps = 0) and by the multiplier converter with multiplier 1 (src.steps = 1)
ConvertShortTrack ==
  /\ stage = "input" /\ src.kind = "short"
  /\ abc' = IF src.steps = 0 THEN EmitEvents(src.events, minMidi, maxMidi) ELSE EmitIntegerEvents(src.events, 1)
  /\ stage' = "text"
  /\ UNCHANGED <<src, parsed, reabc>>
  /\ UNCHANGED <<quantVars, importVars, gameVars>>

\* the multiplier converter's emission of events whose durations are already integers
ConvertIntegerTrack ==
  /\ stage = "input" /\ src.kind = "itrack"
  /\ abc' = EmitIntegerEvents(src.events, 1)
  /\ stage' = "text"
  /\ UNCHANGED <<src, parsed, reabc>>
  /\ UNCHANGED <<quantVars, importVars, gameVars>>

\* one note C4 of src.steps quarter units, as the converter writes it
FormatDuration ==
  /\ stage = "input" /\ src.kind = "dur"
  /\ abc' = getABCNoteName(60) \o formatAbcDuration(Rat(src.steps, 4))
  /\ stage' = "text"
  /\ UNCHANGED <<src, parsed, reabc>>
  /\ UNCHANGED <<quantVars, importVars, gameVars>>

\* parsedMelody = parseABC(getMelody())
ParseText ==
  /\ stage = "text"
  /\ parsed' = parseABC(abc)
  /\ stage' = "parsed"
  /\ UNCHANGED <<src, abc, reabc>>
  /\ UNCHANGED <<quantVars, importVars, gameVars>>

IsIntegerDuration(d) == d.d = 1 /\ d.n >= 0

ToTrackEvent(e) == IF e.id = Null THEN RestEvent(e.duration) ELSE NoteEvent(noteNameToMidi(e.id), e.duration)

\* the parsed events of a text written out again by the multiplier converter's emission
ReEncode ==
  /\ stage = "parsed" /\ src.kind = "text"
  /\ \A i \in DOMAIN parsed : IsIntegerDuration(parsed[i].duration) /\ (parsed[i].id = Null \/ KeyIndex(parsed[i].id) # -1)
  /\ reabc' = EmitIntegerEvents([i \in DOMAIN parsed |-> ToTrackEvent(parsed[i])], 1)
  /\ stage' = "reencoded"
  /\ UNCHANGED <<src, abc, parsed>>
  /\ UNCHANGED <<quantVars, importVars, gameVars>>

(***************************************************************************)
(* The multiplier converter: convertMidiToUrlData of src/unnamed/part_005  *)
(* (first version) and the midi command line tool src/unnamed/part_000     *)
(***************************************************************************)
\* track.notes.sort's comparator: by time, then by pitch descending
CompareNotes(a, b) == IF a.ticks = b.ticks THEN b.midi - a.midi ELSE a.ticks - b.ticks

\* x put into the sorted sequence s behind every element that does not sort after it (the sort is stable)
RECURSIVE InsertNote(_, _)
InsertNote(s, x) ==
  IF s = <<>> THEN <<x>>
  ELSE IF CompareNotes(Head(s), x) <= 0 THEN <<Head(s)>> \o InsertNote(Tail(s), x)
  ELSE <<x>> \o s

RECURSIVE SortNotes(_)
SortNotes(notes) == IF notes = <<>> THEN <<>> ELSE InsertNote(SortNotes(SubSeq(notes, 1, Len(notes) - 1)), notes[Len(notes)])

\* step 1, track.notes.forEach: the events collected so far, the end of the last kept note, its start
RECURSIVE CollectEvents(_, _, _, _, _, _)
CollectEvents(notes, ppq, cli, events, lastTick, lastNoteStart) ==
  IF notes = <<>> THEN events
  ELSE LET note == Head(notes)
           gapTicks == note.ticks - lastTick
           \* gapDuration = (gapTicks / ppq) * 2 > 0.05
           audible == 40 * gapTicks > ppq
           withRest == IF gapTicks > 0 /\ audible /\ (cli \/ events # <<>>)
                       THEN Append(events, RestEvent(Rat(2 * gapTicks, ppq)))
                       ELSE events
       IN IF note.ticks = lastNoteStart
          THEN CollectEvents(Tail(notes), ppq, cli, events, lastTick, lastNoteStart)
          ELSE CollectEvents(Tail(notes), ppq, cli, Append(withRest, NoteEvent(note.midi, Rat(2 * note.durationTicks, ppq))), note.ticks + note.durationTicks, note.ticks)

\* Math.abs(scaled - Math.round(scaled)) < 0.05 for scaled = e.duration * m
IsCleanEvent(e, m) == 20 * Abs(e.duration.n * m - MathRound(e.duration.n * m, e.duration.d) * e.duration.d) < e.duration.d

IsClean(events, m) == \A i \in DOMAIN events : IsCleanEvent(events[i], m)

\* step 2: for (m = 1; m <= 4; m++) with break, starting from bestMultiplier = 4
RECURSIVE SearchMultiplier(_, _)
SearchMultiplier(events, m) ==
  IF m > 4 THEN 4
  ELSE IF IsClean(events, m) THEN m
  ELSE SearchMultiplier(events, m + 1)

\* the search without its break: the last clean multiplier wins
BestMultiplierNoBreak(events) ==
  IF \E m \in 1..4 : IsClean(events, m)
  THEN CHOOSE m \in 1..4 : IsClean(events, m) /\ \A k \in 1..4 : IsClean(events, k) => k <= m
  ELSE 4

BestMultiplier(events) == SearchMultiplier(events, 1)

DEFAULT_BPM == 120

\* Math.round(midi.header.tempos[0]?.bpm || 120); a header without tempo is the tempo 0
ExtractBpm(tempo) == IF tempo.n = 0 THEN DEFAULT_BPM ELSE MathRound(tempo.n, tempo.d)

\* convertMidiToUrlData without bpm *= bestMultiplier
ConvertUnscaledTempo(input) ==
  LET events == CollectEvents(SortNotes(input.notes), input.ppq, input.cli, <<>>, 0, -1)
      bestMultiplier == BestMultiplier(events)
  IN [bpm |-> ExtractBpm(input.tempo),
      melody |-> EmitIntegerEvents(events, bestMultiplier),
      events |-> events,
      bestMultiplier |-> bestMultiplier]

convertMidiToUrlData(input) ==
  LET events == CollectEvents(SortNotes(input.notes), input.ppq, input.cli, <<>>, 0, -1)
      bestMultiplier == BestMultiplier(events)
  IN [bpm |-> ExtractBpm(input.tempo) * bestMultiplier,
      melody |-> EmitIntegerEvents(events, bestMultiplier),
      events |-> events,
      bestMultiplier |-> bestMultiplier]

MaxNotes == 2

OnsetTicks == {0, 6, 9}
DurationTicks == {1, 2, 3, 9}
RawPitches == {60, 64}
PpqValues == {12, 96}
\* the header's tempo: none, an integer, and a fractional one
HeaderTempos == {Num(0), Num(90), Rat(241, 2)}

RawNotes == [ticks : OnsetTicks, midi : RawPitches, durationTicks : DurationTicks]

QuantInputs == [notes : SeqsUpTo(RawNotes, MaxNotes) \cup {<<>>}, ppq : PpqValues, tempo : HeaderTempos, cli : BOOLEAN]

NoResult == [bpm |-> 0, melody |-> <<>>, events |-> <<>>, bestMultiplier |-> 0]

InitQuant ==
  /\ qin \in QuantInputs
  /\ qstage = "input"
  /\ qout = NoResult

\* the web application's converter
ConvertWeb ==
  /\ qstage = "input" /\ ~qin.cli
  /\ qout' = convertMidiToUrlData(qin)
  /\ qstage' = "done"
  /\ UNCHANGED qin
  /\ UNCHANGED <<codecVars, importVars, gameVars>>

\* the command line tool
ConvertCli ==
  /\ qstage = "input" /\ qin.cli
  /\ qout' = convertMidiToUrlData(qin)
  /\ qstage' = "done"
  /\ UNCHANGED qin
  /\ UNCHANGED <<codecVars, importVars, gameVars>>

(***************************************************************************)
(* The game of src/src/main.js.  Times are integers in units of 1/Scale    *)
(* frame and positions integers in units of 1/Scale pixel, so that the     *)
(* interval floor 0.1 and every product SPEED * delta are exact.           *)
(***************************************************************************)
Scale == 10

HEIGHT == 400
WHITE_KEY_HEIGHT == 180
NOTE_HEIGHT == 40
CHORD_TOLERANCE == 10
ORIGINAL_BPM == 100
SPEED == 4
MISS_MARGIN == 20
SPAWN_Y == -100
KEY_MARGIN == 20

\* pianoKeys[i].y: yPos of createPiano
hitLineY == (HEIGHT - WHITE_KEY_HEIGHT - KEY_MARGIN) * Scale
\* a judgment window of one note height: a note on the stop position is on its edge
NarrowHitZone == NOTE_HEIGHT * Scale
\* HIT_ZONE = NOTE_HEIGHT * 2
HIT_ZONE == 2 * NOTE_HEIGHT * Scale
stopY == hitLineY - NOTE_HEIGHT * Scale
missThreshold == hitLineY + MISS_MARGIN * Scale

\* Infinity: larger than every distance, every delta and every time of the model
Infinity == 1000000000

\* timeUntilNextNote = 0.1
MinInterval == Scale \div 10

\* the value of timeUntilNext when duration * getFramesPerBeat() is NaN: no comparison with it succeeds
NeverDue == -1

\* noteData.duration * getFramesPerBeat(), getFramesPerBeat() = ((60 / getCurrentBpm()) * 60) / 2, floored to 0.1
Interval(duration, half) ==
  IF duration = NaN THEN NeverDue
  ELSE IF ~IsFinite(duration) THEN Infinity
  ELSE LET v == (duration.n * 3600 * Scale) \div (duration.d * ORIGINAL_BPM * (IF half THEN 1 ELSE 2))
       IN IF v <= 0 THEN MinInterval ELSE v

NoteId(trk, ev) == [trk |-> trk, ev |-> ev]
NoNote == NoteId("none", 0)

\* spawnNote dropping its isAccompaniment argument: every note interactive
spawnNoteInteractive(notes, noteData, nid, isAccompaniment, offsetFrames) ==
  IF KeyIndex(noteData.id) = -1 THEN notes
  ELSE Append(notes, [nid |-> nid, targetIndex |-> KeyIndex(noteData.id), y |-> SPAWN_Y * Scale + offsetFrames * SPEED, isAccompaniment |-> FALSE])

\* spawnNote without its return for an id that is no key
spawnNoteUnchecked(notes, noteData, nid, isAccompaniment, offsetFrames) ==
  Append(notes, [nid |-> nid, targetIndex |-> KeyIndex(noteData.id), y |-> SPAWN_Y * Scale + offsetFrames * SPEED, isAccompaniment |-> isAccompaniment])

\* spawnNote: the note appended to activeNotes, nothing when the id is no key of the keyboard
spawnNote(notes, noteData, nid, isAccompaniment, offsetFrames) ==
  IF KeyIndex(noteData.id) = -1 THEN notes
  ELSE Append(notes, [nid |-> nid, targetIndex |-> KeyIndex(noteData.id), y |-> SPAWN_Y * Scale + offsetFrames * SPEED, isAccompaniment |-> isAccompaniment])

\* the while loop with the accumulator reset to 0 on consumption instead of reduced by the interval
RECURSIVE ConsumeDueResets(_, _, _, _, _)
ConsumeDueResets(track, trk, isAccompaniment, half, p) ==
  IF p.until # NeverDue /\ p.since >= p.until /\ p.index < Len(track)
  THEN LET noteData == track[p.index + 1]
           notes == IF noteData.id # Null THEN spawnNote(p.notes, noteData, NoteId(trk, p.index + 1), isAccompaniment, 0) ELSE p.notes
       IN ConsumeDueResets(track, trk, isAccompaniment, half, [index |-> p.index + 1, since |-> 0, until |-> Interval(noteData.duration, half), notes |-> notes])
  ELSE p

\* the while loop of one track in the ticker; p = [index, since, until, notes]
RECURSIVE ConsumeDue(_, _, _, _, _)
ConsumeDue(track, trk, isAccompaniment, half, p) ==
  IF p.until # NeverDue /\ p.since >= p.until /\ p.index < Len(track)
  THEN LET since == p.since - p.until
           noteData == track[p.index + 1]
           notes == IF noteData.id # Null THEN spawnNote(p.notes, noteData, NoteId(trk, p.index + 1), isAccompaniment, since) ELSE p.notes
       IN ConsumeDue(track, trk, isAccompaniment, half, [index |-> p.index + 1, since |-> since, until |-> Interval(noteData.duration, half), notes |-> notes])
  ELSE p

\* one track's block of the ticker: accumulate the effective delta, then consume what is due
AdvanceTrack(track, trk, isAccompaniment, half, p, effectiveDelta) ==
  IF Len(track) > 0 /\ p.index < Len(track)
  THEN ConsumeDue(track, trk, isAccompaniment, half, [p EXCEPT !.since = p.since + effectiveDelta])
  ELSE p

Interactive(notes) == {i \in DOMAIN notes : ~notes[i].isAccompaniment}

\* the loop measuring to the hit line instead of the stop position
RECURSIVE MinDistanceToHitLine(_, _, _)
MinDistanceToHitLine(notes, i, minDistance) ==
  IF i > Len(notes) THEN minDistance
  ELSE IF ~notes[i].isAccompaniment /\ hitLineY - notes[i].y < minDistance
       THEN MinDistanceToHitLine(notes, i + 1, hitLineY - notes[i].y)
       ELSE MinDistanceToHitLine(notes, i + 1, minDistance)

\* the loop keeping the distance of the last interactive note instead of the smallest
RECURSIVE LastStopDistance(_, _, _)
LastStopDistance(notes, i, minDistance) ==
  IF i > Len(notes) THEN minDistance
  ELSE IF ~notes[i].isAccompaniment
       THEN LastStopDistance(notes, i + 1, stopY - notes[i].y)
       ELSE LastStopDistance(notes, i + 1, minDistance)

\* the loop without its isAccompaniment test: autoplay notes measured too
RECURSIVE MinStopDistanceAllNotes(_, _, _)
MinStopDistanceAllNotes(notes, i, minDistance) ==
  IF i > Len(notes) THEN minDistance
  ELSE IF stopY - notes[i].y < minDistance
       THEN MinStopDistanceAllNotes(notes, i + 1, stopY - notes[i].y)
       ELSE MinStopDistanceAllNotes(notes, i + 1, minDistance)

\* the for loop of the wait-mode block: the smallest stopY - n.y over interactive notes
RECURSIVE MinStopDistance(_, _, _)
MinStopDistance(notes, i, minDistance) ==
  IF i > Len(notes) THEN minDistance
  ELSE IF ~notes[i].isAccompaniment /\ stopY - notes[i].y < minDistance
       THEN MinStopDistance(notes, i + 1, stopY - notes[i].y)
       ELSE MinStopDistance(notes, i + 1, minDistance)

\* if (minDistance < 0) minDistance = 0
\* the distance left as it is
NoClamp(minDistance) == minDistance

ClampDistance(minDistance) == IF minDistance < 0 THEN 0 ELSE minDistance

\* the ticker without its wait-mode block
EffectiveDeltaRaw(raw, notes, wait, demo) == raw

\* the wait-mode block of the ticker
EffectiveDelta(raw, notes, wait, demo) ==
  IF wait /\ ~demo /\ Len(notes) > 0
  THEN LET minDistance == ClampDistance(MinStopDistance(notes, 1, Infinity))
           maxAllowedDelta == minDistance \div SPEED
       IN IF maxAllowedDelta < raw THEN maxAllowedDelta ELSE raw
  ELSE raw

\* the motion loop sounding autoplay notes when their top edge, not their leading edge, is on the hit line
FateAtHitLine(n, demo) ==
  IF n.isAccompaniment THEN (IF n.y >= hitLineY THEN "backing" ELSE "stay")
  ELSE IF demo THEN (IF n.y >= hitLineY THEN "autoplay" ELSE "stay")
  ELSE IF n.y > missThreshold THEN "miss" ELSE "stay"

\* the motion loop without the miss branch
FateNoMiss(n, demo) ==
  IF n.isAccompaniment THEN (IF n.y + NOTE_HEIGHT * Scale >= hitLineY THEN "backing" ELSE "stay")
  ELSE IF demo THEN (IF n.y + NOTE_HEIGHT * Scale >= hitLineY THEN "autoplay" ELSE "stay")
  ELSE "stay"

\* what the motion loop does with one note once it has moved
Fate(n, demo) ==
  IF n.isAccompaniment THEN (IF n.y + NOTE_HEIGHT * Scale >= hitLineY THEN "backing" ELSE "stay")
  ELSE IF demo THEN (IF n.y + NOTE_HEIGHT * Scale >= hitLineY THEN "autoplay" ELSE "stay")
  ELSE IF n.y > missThreshold THEN "miss" ELSE "stay"

\* the motion update with autoplay notes moved by the frame count alone
MoveNoteUneven(n, effectiveDelta) == [n EXCEPT !.y = n.y + (IF n.isAccompaniment THEN effectiveDelta ELSE SPEED * effectiveDelta)]

\* note.y += SPEED * effectiveDelta
MoveNote(n, effectiveDelta) == [n EXCEPT !.y = n.y + SPEED * effectiveDelta]

RECURSIVE KeepFated(_, _, _)
KeepFated(notes, demo, wanted) ==
  IF notes = <<>> THEN <<>>
  ELSE IF Fate(Head(notes), demo) = wanted THEN <<Head(notes)>> \o KeepFated(Tail(notes), demo, wanted)
  ELSE KeepFated(Tail(notes), demo, wanted)

\* the motion loop of the ticker: every note moved, the notes that stay in flight
MoveNotes(notes, effectiveDelta, demo) == KeepFated([i \in DOMAIN notes |-> MoveNote(notes[i], effectiveDelta)], demo, "stay")

Ids(notes) == {notes[i].nid : i \in DOMAIN notes}

FatedIds(notes, effectiveDelta, demo, fates) == {notes[i].nid : i \in {j \in DOMAIN notes : Fate(MoveNote(notes[j], effectiveDelta), demo) \in fates}}

\* the two search loops of pressKey: the index in notes of the note to hit, 0 when there is none
RECURSIVE MinGlobalDistance(_, _, _)
MinGlobalDistance(notes, i, minGlobalDistance) ==
  IF i > Len(notes) THEN minGlobalDistance
  ELSE IF ~notes[i].isAccompaniment /\ Abs(notes[i].y - hitLineY) < minGlobalDistance
       THEN MinGlobalDistance(notes, i + 1, Abs(notes[i].y - hitLineY))
       ELSE MinGlobalDistance(notes, i + 1, minGlobalDistance)

\* the candidate test without the lane of the pressed key
IsCandidateAnyLane(n, index, minGlobalDistance) ==
  /\ ~n.isAccompaniment
  /\ Abs(n.y - hitLineY) < HIT_ZONE
  /\ Abs(n.y - hitLineY) <= minGlobalDistance + CHORD_TOLERANCE * Scale

\* the candidate test without the chord tolerance: any note of the lane inside the window
IsCandidateInWindow(n, index, minGlobalDistance) ==
  /\ n.targetIndex = index /\ ~n.isAccompaniment
  /\ Abs(n.y - hitLineY) < HIT_ZONE

\* the three conditions of the second loop of pressKey on one note
IsCandidate(n, index, minGlobalDistance) ==
  /\ n.targetIndex = index /\ ~n.isAccompaniment
  /\ Abs(n.y - hitLineY) < HIT_ZONE
  /\ Abs(n.y - hitLineY) <= minGlobalDistance + CHORD_TOLERANCE * Scale

\* the search loop with dist <= minColDistance: the last-spawned candidate wins a tie
RECURSIVE NoteToHitLatest(_, _, _, _, _, _)
NoteToHitLatest(notes, index, minGlobalDistance, i, noteToHitIndex, minColDistance) ==
  IF i > Len(notes) THEN noteToHitIndex
  ELSE IF IsCandidate(notes[i], index, minGlobalDistance) /\ Abs(notes[i].y - hitLineY) <= minColDistance
       THEN NoteToHitLatest(notes, index, minGlobalDistance, i + 1, i, Abs(notes[i].y - hitLineY))
       ELSE NoteToHitLatest(notes, index, minGlobalDistance, i + 1, noteToHitIndex, minColDistance)

\* the second loop of pressKey: the nearest candidate of the lane, the first one found on a tie
RECURSIVE NoteToHit(_, _, _, _, _, _)
NoteToHit(notes, index, minGlobalDistance, i, noteToHitIndex, minColDistance) ==
  IF i > Len(notes) THEN noteToHitIndex
  ELSE IF IsCandidate(notes[i], index, minGlobalDistance) /\ Abs(notes[i].y - hitLineY) < minColDistance
       THEN NoteToHit(notes, index, minGlobalDistance, i + 1, i, Abs(notes[i].y - hitLineY))
       ELSE NoteToHit(notes, index, minGlobalDistance, i + 1, noteToHitIndex, minColDistance)

\* the judgment without the wavefront gate and the window: the nearest interactive note of the lane
HitIndexNearestInLane(notes, index) ==
  LET lane == {i \in DOMAIN notes : notes[i].targetIndex = index /\ ~notes[i].isAccompaniment}
  IN IF lane = {} THEN 0
     ELSE CHOOSE i \in lane : \A j \in lane :
            \/ Abs(notes[i].y - hitLineY) < Abs(notes[j].y - hitLineY)
            \/ Abs(notes[i].y - hitLineY) = Abs(notes[j].y - hitLineY) /\ i <= j

\* the judgment with a penalty: a press that finds no candidate takes the oldest note in flight
HitIndexOrOldest(notes, index) ==
  LET minGlobalDistance == MinGlobalDistance(notes, 1, Infinity)
      i == IF minGlobalDistance > HIT_ZONE THEN 0 ELSE NoteToHit(notes, index, minGlobalDistance, 1, 0, Infinity)
  IN IF i = 0 /\ Len(notes) > 0 THEN 1 ELSE i

\* the judgment of pressKey: the wavefront, its gate, then the search of the pressed lane
HitIndex(notes, index) ==
  LET minGlobalDistance == MinGlobalDistance(notes, 1, Infinity)
  IN IF minGlobalDistance > HIT_ZONE THEN 0
     ELSE NoteToHit(notes, index, minGlobalDistance, 1, 0, Infinity)

\* activeNotes.splice(i, 1), i counted from 1
Splice(notes, i) == SubSeq(notes, 1, i - 1) \o SubSeq(notes, i + 1, Len(notes))

(***************************************************************************)
(* The run: menu buttons, key presses, ticks and the return-to-menu timer  *)
(***************************************************************************)
MaxRawFrames == 6

\* the longest time, in frames, a playhead of the model waits for its next event
MaxIdleFrames == 72

\* the test without the isSongFinished flag
FinishingRepeats(melody, accompaniment, mIndex, aIndex, notes, finished) ==
  LET melodyEnded == mIndex >= Len(melody)
      accompEnded == Len(accompaniment) = 0 \/ aIndex >= Len(accompaniment)
  IN Len(melody) > 0 /\ melodyEnded /\ accompEnded /\ Len(notes) = 0

\* the song-end test of the ticker
Finishing(melody, accompaniment, mIndex, aIndex, notes, finished) ==
  LET melodyEnded == mIndex >= Len(melody)
      accompEnded == Len(accompaniment) = 0 \/ aIndex >= Len(accompaniment)
  IN Len(melody) > 0 /\ melodyEnded /\ accompEnded /\ Len(notes) = 0 /\ ~finished

\* ticker.deltaTime: three frames, or the longest frame
RawDeltas == {3 * Scale, MaxRawFrames * Scale}

\* the keys the player presses: C4, D4 and a key no track uses
C4 == [note |-> "C", acc |-> "", octave |-> 4]
D4 == [note |-> "D", acc |-> "", octave |-> 4]
PlayerKeys == {KeyIndex(C4), KeyIndex(D4), 0}

\* the melody and accompaniment parameters of the URL
MelodyTexts ==
  {<<"C", "/", "3", "D", "/", "3", "C">>, <<"D", "/", "2", "C", "/", "2">>,
   <<>>, <<"C", "0", "D">>, <<"C", "0", "/", "0", "D">>, <<"C", "4", "D">>,
   <<"C", "/", "3", "C", "0", "C">>, <<"^", "E", "D">>}
AccompanimentTexts == {<<>>, <<"z", "/", "3", "C", "/", "2">>}

Last(op, lane, raw, eff, hit, missed, played, spawned, scheduled) ==
  [op |-> op, lane |-> lane, raw |-> raw, eff |-> eff, hit |-> hit, missed |-> missed, played |-> played, spawned |-> spawned, scheduled |-> scheduled]

\* no note was hit
NoHit == [nid |-> NoNote, targetIndex |-> -1, y |-> 0, isAccompaniment |-> FALSE]

Quiet(op, lane) == Last(op, lane, 0, 0, NoHit, {}, {}, {}, FALSE)

InitGame ==
  /\ parsedMelody \in {parseABC(t) : t \in MelodyTexts}
  /\ parsedAccompaniment \in {parseABC(t) : t \in AccompanimentTexts}
  /\ melodyIndex = 0 /\ timeSinceLastNote = 0 /\ timeUntilNextNote = 0
  /\ accompIndex = 0 /\ timeSinceLastAccomp = 0 /\ timeUntilNextAccomp = 0
  /\ isGameActive = FALSE /\ isSongFinished = FALSE
  /\ isWaitMode = TRUE /\ isDemoPlaying = FALSE
  /\ selectedTrackType = "melody" /\ isHalfSpeed = FALSE
  /\ activeNotes = <<>>
  /\ pendingResets = 0
  /\ melodyTime = 0 /\ accompTime = 0
  /\ last = Quiet("init", -1)

\* a restart that leaves the accompaniment playhead where it was
RestartKeepsAccompaniment(demo) ==
  /\ melodyIndex' = 0 /\ timeSinceLastNote' = 0 /\ timeUntilNextNote' = 0
  /\ UNCHANGED <<accompIndex, timeSinceLastAccomp, timeUntilNextAccomp>>
  /\ isSongFinished' = FALSE
  /\ isDemoPlaying' = demo
  /\ activeNotes' = <<>>
  /\ isGameActive' = TRUE
  /\ melodyTime' = 0 /\ accompTime' = 0

\* resetGame (demo = FALSE) and startDemo (demo = TRUE)
Restart(demo) ==
  /\ melodyIndex' = 0 /\ timeSinceLastNote' = 0 /\ timeUntilNextNote' = 0
  /\ accompIndex' = 0 /\ timeSinceLastAccomp' = 0 /\ timeUntilNextAccomp' = 0
  /\ isSongFinished' = FALSE
  /\ isDemoPlaying' = demo
  /\ activeNotes' = <<>>
  /\ isGameActive' = TRUE
  /\ melodyTime' = 0 /\ accompTime' = 0

\* a menu that stays on screen during a run
MenuStaysVisible == TRUE

\* the menu is visible exactly while no game is active
MenuVisible == ~isGameActive

ClickPlayMelody ==
  /\ MenuVisible /\ Len(parsedMelody) > 0
  /\ selectedTrackType' = "melody"
  /\ Restart(FALSE)
  /\ last' = Quiet("reset", -1)
  /\ UNCHANGED <<parsedMelody, parsedAccompaniment, isWaitMode, isHalfSpeed, pendingResets>>
  /\ UNCHANGED <<codecVars, quantVars, importVars>>

ClickPlayAccompaniment ==
  /\ MenuVisible /\ Len(parsedAccompaniment) > 0
  /\ selectedTrackType' = "accompaniment"
  /\ Restart(FALSE)
  /\ last' = Quiet("reset", -1)
  /\ UNCHANGED <<parsedMelody, parsedAccompaniment, isWaitMode, isHalfSpeed, pendingResets>>
  /\ UNCHANGED <<codecVars, quantVars, importVars>>

ClickDemo ==
  /\ MenuVisible /\ Len(parsedMelody) > 0
  /\ selectedTrackType' = "melody"
  /\ Restart(TRUE)
  /\ last' = Quiet("demo", -1)
  /\ UNCHANGED <<parsedMelody, parsedAccompaniment, isWaitMode, isHalfSpeed, pendingResets>>
  /\ UNCHANGED <<codecVars, quantVars, importVars>>

ToggleWaitMode ==
  /\ MenuVisible /\ Len(parsedMelody) > 0
  /\ isWaitMode' = ~isWaitMode
  /\ last' = Quiet("toggle", -1)
  /\ UNCHANGED <<parsedMelody, parsedAccompaniment, melodyIndex, timeSinceLastNote, timeUntilNextNote, accompIndex, timeSinceLastAccomp, timeUntilNextAccomp, isGameActive, isSongFinished, isDemoPlaying, selectedTrackType, isHalfSpeed, activeNotes, pendingResets, melodyTime, accompTime>>
  /\ UNCHANGED <<codecVars, quantVars, importVars>>

ToggleHalfSpeed ==
  /\ MenuVisible /\ Len(parsedMelody) > 0
  /\ isHalfSpeed' = ~isHalfSpeed
  /\ last' = Quiet("toggle", -1)
  /\ UNCHANGED <<parsedMelody, parsedAccompaniment, melodyIndex, timeSinceLastNote, timeUntilNextNote, accompIndex, timeSinceLastAccomp, timeUntilNextAccomp, isGameActive, isSongFinished, isWaitMode, isDemoPlaying, selectedTrackType, activeNotes, pendingResets, melodyTime, accompTime>>
  /\ UNCHANGED <<codecVars, quantVars, importVars>>

\* pressKey(index) while no game is active: a loaded melody starts
PressKeyIdle(index) ==
  /\ ~isGameActive /\ Len(parsedMelody) > 0
  /\ Restart(FALSE)
  /\ last' = Quiet("reset", index)
  /\ UNCHANGED <<parsedMelody, parsedAccompaniment, isWaitMode, isHalfSpeed, selectedTrackType, pendingResets>>
  /\ UNCHANGED <<codecVars, quantVars, importVars>>

\* pressKey(index) during a game: the hit judgment
PressKeyActive(index) ==
  /\ isGameActive
  /\ LET i == HitIndex(activeNotes, index)
     IN /\ activeNotes' = IF i = 0 THEN activeNotes ELSE Splice(activeNotes, i)
        /\ last' = Last("press", index, 0, 0, IF i = 0 THEN NoHit ELSE activeNotes[i], {}, {}, {}, FALSE)
  /\ UNCHANGED <<parsedMelody, parsedAccompaniment, melodyIndex, timeSinceLastNote, timeUntilNextNote, accompIndex, timeSinceLastAccomp, timeUntilNextAccomp, isGameActive, isSongFinished, isWaitMode, isDemoPlaying, selectedTrackType, isHalfSpeed, pendingResets, melodyTime, accompTime>>
  /\ UNCHANGED <<codecVars, quantVars, importVars>>

\* one call of the ticker callback with ticker.deltaTime = raw
Tick(raw) ==
  /\ isGameActive
  /\ timeSinceLastNote <= MaxIdleFrames * Scale /\ timeSinceLastAccomp <= MaxIdleFrames * Scale
  /\ \E effectiveDelta \in {EffectiveDelta(raw, activeNotes, isWaitMode, isDemoPlaying)} :
     \E isMelodyInteractive \in {selectedTrackType = "melody"} :
     \E m \in {AdvanceTrack(parsedMelody, "melody", ~isMelodyInteractive, isHalfSpeed, [index |-> melodyIndex, since |-> timeSinceLastNote, until |-> timeUntilNextNote, notes |-> activeNotes], effectiveDelta)} :
     \E a \in {AdvanceTrack(parsedAccompaniment, "accompaniment", isMelodyInteractive, isHalfSpeed, [index |-> accompIndex, since |-> timeSinceLastAccomp, until |-> timeUntilNextAccomp, notes |-> m.notes], effectiveDelta)} :
     \E finishing \in {Finishing(parsedMelody, parsedAccompaniment, m.index, a.index, a.notes, isSongFinished)} :
        /\ melodyIndex' = m.index /\ timeSinceLastNote' = m.since /\ timeUntilNextNote' = m.until
        /\ accompIndex' = a.index /\ timeSinceLastAccomp' = a.since /\ timeUntilNextAccomp' = a.until
        /\ isSongFinished' = (isSongFinished \/ finishing)
        /\ pendingResets' = IF finishing THEN pendingResets + 1 ELSE pendingResets
        /\ melodyTime' = IF Len(parsedMelody) > 0 /\ melodyIndex < Len(parsedMelody) THEN melodyTime + effectiveDelta ELSE melodyTime
        /\ accompTime' = IF Len(parsedAccompaniment) > 0 /\ accompIndex < Len(parsedAccompaniment) THEN accompTime + effectiveDelta ELSE accompTime
        /\ activeNotes' = MoveNotes(a.notes, effectiveDelta, isDemoPlaying)
        /\ last' = Last("tick", -1, raw, effectiveDelta, NoHit, FatedIds(a.notes, effectiveDelta, isDemoPlaying, {"miss"}), FatedIds(a.notes, effectiveDelta, isDemoPlaying, {"backing", "autoplay"}), Ids(a.notes) \ Ids(activeNotes), finishing)
  /\ UNCHANGED <<parsedMelody, parsedAccompaniment, isGameActive, isWaitMode, isDemoPlaying, selectedTrackType, isHalfSpeed>>
  /\ UNCHANGED <<codecVars, quantVars, importVars>>

\* the setTimeout callback of the completion block: resetToMenu
TimerFires ==
  /\ pendingResets > 0
  /\ pendingResets' = pendingResets - 1
  /\ isGameActive' = FALSE
  /\ last' = Quiet("timer", -1)
  /\ UNCHANGED <<parsedMelody, parsedAccompaniment, melodyIndex, timeSinceLastNote, timeUntilNextNote, accompIndex, timeSinceLastAccomp, timeUntilNextAccomp, isSongFinished, isWaitMode, isDemoPlaying, selectedTrackType, isHalfSpeed, activeNotes, melodyTime, accompTime>>
  /\ UNCHANGED <<codecVars, quantVars, importVars>>

(***************************************************************************)
(* The file import: the change handler of main.js with the third           *)
(* converter, convertMidiToUrlData / convertTrackToAbc of part_005         *)
(***************************************************************************)
\* the comparator of track.notes.sort in convertTrackToAbc: by time, chords by pitch, descending for the melody
CompareByRole(a, b, isAccompaniment) ==
  IF a.ticks = b.ticks THEN (IF isAccompaniment THEN a.midi - b.midi ELSE b.midi - a.midi)
  ELSE a.ticks - b.ticks

RECURSIVE InsertByRole(_, _, _)
InsertByRole(s, x, isAccompaniment) ==
  IF s = <<>> THEN <<x>>
  ELSE IF CompareByRole(Head(s), x, isAccompaniment) <= 0 THEN <<Head(s)>> \o InsertByRole(Tail(s), x, isAccompaniment)
  ELSE <<x>> \o s

\* the sort ignoring the role: chords always by pitch descending
RECURSIVE SortTrackAsMelody(_, _)
SortTrackAsMelody(notes, isAccompaniment) ==
  IF notes = <<>> THEN <<>>
  ELSE InsertByRole(SortTrackAsMelody(SubSeq(notes, 1, Len(notes) - 1), isAccompaniment), notes[Len(notes)], FALSE)

\* track.notes.sort (stable)
RECURSIVE SortTrack(_, _)
SortTrack(notes, isAccompaniment) ==
  IF notes = <<>> THEN <<>>
  ELSE InsertByRole(SortTrack(SubSeq(notes, 1, Len(notes) - 1), isAccompaniment), notes[Len(notes)], isAccompaniment)

\* the uniqueNotes loop: a note starting less than a tick from the last kept one is skipped
RECURSIVE UniqueNotes(_, _)
UniqueNotes(notes, lastTick) ==
  IF notes = <<>> THEN <<>>
  ELSE IF Abs(Head(notes).ticks - lastTick) < 1 THEN UniqueNotes(Tail(notes), lastTick)
  ELSE <<Head(notes)>> \o UniqueNotes(Tail(notes), Head(notes).ticks)

\* the loop body without its staccato branch: every note fills its slot and no rest follows
SlotEventsLegato(uniqueNotes, i, ppq) ==
  LET note == uniqueNotes[i]
      nextStart == IF i < Len(uniqueNotes) THEN uniqueNotes[i + 1].ticks ELSE note.ticks + note.durationTicks
      timeUntilNext == nextStart - note.ticks
  IN IF 200 * timeUntilNext <= ppq THEN <<>> ELSE <<NoteEvent(note.midi, Rat(2 * timeUntilNext, ppq))>>

\* one iteration of the loop over uniqueNotes: the events of note i
SlotEvents(uniqueNotes, i, ppq) ==
  LET note == uniqueNotes[i]
      nextStart == IF i < Len(uniqueNotes) THEN uniqueNotes[i + 1].ticks ELSE note.ticks + note.durationTicks
      timeUntilNext == nextStart - note.ticks
      timeSlot == Rat(2 * timeUntilNext, ppq)
      actualDuration == Rat(2 * note.durationTicks, ppq)
  IN \* timeSlot <= 0.01
     IF 200 * timeUntilNext <= ppq THEN <<>>
     \* actualDuration < timeSlot - tolerance, tolerance = 0.05
     ELSE IF 40 * note.durationTicks < 40 * timeUntilNext - ppq
          THEN <<NoteEvent(note.midi, actualDuration), RestEvent(Rat(2 * (timeUntilNext - note.durationTicks), ppq))>>
          ELSE <<NoteEvent(note.midi, timeSlot)>>

RECURSIVE TrackEventsFrom(_, _, _)
TrackEventsFrom(uniqueNotes, i, ppq) ==
  IF i > Len(uniqueNotes) THEN <<>>
  ELSE SlotEvents(uniqueNotes, i, ppq) \o TrackEventsFrom(uniqueNotes, i + 1, ppq)

convertTrackToAbc(track, ppq, lo, hi, isAccompaniment) ==
  EmitEvents(TrackEventsFrom(UniqueNotes(SortTrack(track, isAccompaniment), -1), 1, ppq), lo, hi)

\* the loop over midi.tracks[1..]: the first track with the most notes, 0 when none has a note
RECURSIVE BestTrack(_, _, _, _)
BestTrack(tracks, i, maxNotes, bestTrack) ==
  IF i > Len(tracks) THEN bestTrack
  ELSE IF Len(tracks[i]) > maxNotes THEN BestTrack(tracks, i + 1, Len(tracks[i]), i)
  ELSE BestTrack(tracks, i + 1, maxNotes, bestTrack)

\* convertMidiToUrlData(arrayBuffer, minMidi, maxMidi) of a midi with at least one track
ConvertMidi(midi, lo, hi) ==
  LET bestTrack == BestTrack(midi.tracks, 2, 0, 0)
  IN [bpm |-> ExtractBpm(midi.tempo),
      melody |-> convertTrackToAbc(midi.tracks[1], midi.ppq, lo, hi, FALSE),
      accompaniment |-> IF bestTrack = 0 THEN <<>> ELSE convertTrackToAbc(midi.tracks[bestTrack], midi.ppq, lo, hi, TRUE)]

\* if (!melodyTrack) throw new Error("No tracks found in MIDI file.")
Throws(midi) == Len(midi.tracks) = 0

MaxChord == 2

ImportNotes == [ticks : {0, 6}, midi : {60, 64}, durationTicks : {3, 5, 9}]
ImportTracks == SeqsUpTo(ImportNotes, MaxChord) \cup {<<>>}
C4Quarter == [ticks |-> 0, midi |-> 60, durationTicks |-> 6]
E4Quarter == [ticks |-> 0, midi |-> 64, durationTicks |-> 6]
ShortTracks == {<<>>, <<C4Quarter>>, <<E4Quarter>>, <<C4Quarter, E4Quarter>>}
ImportTrackLists ==
  {<<>>} \cup {<<m>> : m \in ImportTracks}
    \cup {<<m, b>> : m \in ShortTracks, b \in ImportTracks}
    \cup {<<m, b, c>> : m \in ShortTracks, b \in ShortTracks, c \in ShortTracks}
ImportPpq == 12
\* midi.header.ppq: a tick is a sixth, an eighth or a twelfth of a unit
ImportPpqs == {ImportPpq, 16, 2 * ImportPpq}
ImportFiles == [name : {"song"}, midi : [tracks : ImportTrackLists, ppq : ImportPpqs, tempo : {Num(0), Num(90)}]]

\* the song of the page's URL before the import
DemoSong == [title |-> "demo", bpm |-> ORIGINAL_BPM, melody |-> ExampleText, accompaniment |-> <<"z", "2">>]

NoFile == [name |-> "", midi |-> [tracks |-> <<>>, ppq |-> 1, tempo |-> Num(0)]]

InitImport ==
  /\ istage = "menu"
  /\ file = NoFile
  /\ href = DemoSong
  /\ loadingVisible = FALSE
  /\ menuVisible = TRUE
  /\ alerts = 0

\* the change handler up to its first await: the menu gives way to "Parsing MIDI..."
ChooseFile ==
  /\ istage \in {"menu", "failed"}
  /\ file' \in ImportFiles
  /\ menuVisible' = FALSE
  /\ loadingVisible' = TRUE
  /\ istage' = "parsing"
  /\ alerts' = 0
  /\ UNCHANGED href
  /\ UNCHANGED <<codecVars, quantVars, gameVars>>

\* the try block after conversion: the new URL is navigated to
ImportSucceeds ==
  /\ istage = "parsing" /\ ~Throws(file.midi)
  /\ LET r == ConvertMidi(file.midi, minMidi, maxMidi)
     IN href' = [title |-> file.name, bpm |-> r.bpm, melody |-> r.melody, accompaniment |-> r.accompaniment]
  /\ istage' = "navigated"
  /\ UNCHANGED <<file, loadingVisible, menuVisible, alerts>>
  /\ UNCHANGED <<codecVars, quantVars, gameVars>>

\* the catch block without loadingText.visible = false
ImportFailsStillLoading ==
  /\ istage = "parsing" /\ Throws(file.midi)
  /\ alerts' = alerts + 1
  /\ menuVisible' = TRUE
  /\ istage' = "failed"
  /\ UNCHANGED <<file, href, loadingVisible>>
  /\ UNCHANGED <<codecVars, quantVars, gameVars>>

\* the catch block: the error is reported in an alert, then the menu comes back;
\* alerts counts the alerts of the last import
ImportFails ==
  /\ istage = "parsing" /\ Throws(file.midi)
  /\ alerts' = alerts + 1
  /\ loadingVisible' = FALSE
  /\ menuVisible' = TRUE
  /\ istage' = "failed"
  /\ UNCHANGED <<file, href>>
  /\ UNCHANGED <<codecVars, quantVars, gameVars>>

(***************************************************************************)
(* Specifications                                                          *)
(***************************************************************************)
IdleCodec == stage = "idle" /\ src = Source("none", <<>>, <<>>, 0) /\ abc = <<>> /\ parsed = <<>> /\ reabc = <<>>
IdleQuant == qstage = "idle" /\ qin = [notes |-> <<>>, ppq |-> 1, tempo |-> Num(0), cli |-> FALSE] /\ qout = NoResult
IdleImport == InitImport

IdleGame ==
  /\ parsedMelody = <<>> /\ parsedAccompaniment = <<>>
  /\ melodyIndex = 0 /\ timeSinceLastNote = 0 /\ timeUntilNextNote = 0
  /\ accompIndex = 0 /\ timeSinceLastAccomp = 0 /\ timeUntilNextAccomp = 0
  /\ isGameActive = FALSE /\ isSongFinished = FALSE
  /\ isWaitMode = TRUE /\ isDemoPlaying = FALSE
  /\ selectedTrackType = "melody" /\ isHalfSpeed = FALSE
  /\ activeNotes = <<>>
  /\ pendingResets = 0
  /\ melodyTime = 0 /\ accompTime = 0
  /\ last = Quiet("init", -1)

Init == InitGame /\ IdleCodec /\ IdleQuant /\ IdleImport
Next ==
  \/ ClickPlayMelody
  \/ ClickPlayAccompaniment
  \/ ClickDemo
  \/ ToggleWaitMode
  \/ ToggleHalfSpeed
  \/ \E index \in PlayerKeys : PressKeyIdle(index)
  \/ \E index \in PlayerKeys : PressKeyActive(index)
  \/ \E raw \in RawDeltas : Tick(raw)
  \/ TimerFires
Spec == Init /\ [][Next]_vars

\* the player of a wait-mode run presses the lane of a note halted at the stop position
PressHalted ==
  \E index \in PlayerKeys :
    /\ isWaitMode /\ ~isDemoPlaying
    /\ \E i \in Interactive(activeNotes) : activeNotes[i].y = stopY /\ activeNotes[i].targetIndex = index
    /\ PressKeyActive(index)

\* the ticker is called every frame, a scheduled timer fires, and halted notes are pressed
FairSpec ==
  /\ Spec
  /\ WF_vars(\E raw \in RawDeltas : Tick(raw))
  /\ WF_vars(TimerFires)
  /\ WF_vars(PressHalted)

InitC == InitCodec /\ IdleQuant /\ IdleImport /\ IdleGame
NextC == ConvertTrack \/ ClipPitch \/ ConvertShortTrack \/ ConvertIntegerTrack \/ FormatDuration \/ ParseText \/ ReEncode
SpecCodec == InitC /\ [][NextC]_vars

InitQ == InitQuant /\ IdleCodec /\ IdleImport /\ IdleGame
NextQ == ConvertWeb \/ ConvertCli
SpecQuant == InitQ /\ [][NextQ]_vars

InitI == InitImport /\ IdleCodec /\ IdleQuant /\ IdleGame
NextI == ChooseFile \/ ImportSucceeds \/ ImportFails
SpecImport == InitI /\ [][NextI]_vars

(***************************************************************************)
(* Properties                                                              *)
(***************************************************************************)
Distance(n) == Abs(n.y - hitLineY)

WaitRun == isWaitMode /\ ~isDemoPlaying

StopDistances(notes) == {IF stopY - notes[i].y < 0 THEN 0 ELSE stopY - notes[i].y : i \in Interactive(notes)}

Least(S) == CHOOSE x \in S : \A y \in S : x <= y

ChordAtWavefront(notes, a, b) ==
  /\ a \in Interactive(notes) /\ b \in Interactive(notes)
  /\ notes[a].targetIndex # notes[b].targetIndex
  /\ Distance(notes[a]) = Distance(notes[b])
  /\ Distance(notes[a]) < HIT_ZONE
  /\ \A i \in Interactive(notes) : Distance(notes[a]) <= Distance(notes[i])

\* b is an interactive note at the wavefront in another lane than the note just hit, and as far from the hit line
MateOfHit(notes, b) ==
  /\ b \in Interactive(notes)
  /\ notes[b].targetIndex # last.hit.targetIndex
  /\ Distance(notes[b]) = Distance(last.hit)
  /\ \A i \in Interactive(notes) : Distance(notes[b]) <= Distance(notes[i])

\* C3: with two interactive notes of different lanes A and B equally far from the hit line at the
\* wavefront, pressKey(A) removes exactly a lane-A note of that distance and leaves the lane-B note
\* in flight unchanged; a pressKey(B) that follows removes a lane-B note of that distance
ChordHitIndependence ==
  [][/\ \A a, b \in DOMAIN activeNotes :
          (last'.op = "press" /\ ChordAtWavefront(activeNotes, a, b) /\ last'.lane = activeNotes[a].targetIndex) =>
             /\ last'.hit.targetIndex = activeNotes[a].targetIndex
             /\ Distance(last'.hit) = Distance(activeNotes[a])
             /\ \E i \in DOMAIN activeNotes : activeNotes[i] = last'.hit /\ activeNotes' = Splice(activeNotes, i)
             /\ \E j \in DOMAIN activeNotes' : activeNotes'[j] = activeNotes[b]
     /\ \A b \in DOMAIN activeNotes :
          (last.op = "press" /\ last.hit # NoHit /\ MateOfHit(activeNotes, b) /\ last'.op = "press" /\ last'.lane = activeNotes[b].targetIndex) =>
             /\ last'.hit.targetIndex = activeNotes[b].targetIndex
             /\ Distance(last'.hit) = Distance(activeNotes[b])
             /\ Len(activeNotes') = Len(activeNotes) - 1
             /\ \A j \in DOMAIN activeNotes' : activeNotes'[j].nid # last'.hit.nid]_vars

\* one note of a chord was just hit and its mate in the other lane is still in flight at the wavefront
ChordHalfHit ==
  /\ last.op = "press" /\ last.hit # NoHit
  /\ \E b \in DOMAIN activeNotes : MateOfHit(activeNotes, b)

Pitch(id) == IF id = Null THEN 0 ELSE noteNameToMidi(id)

SameEvent(e, p) ==
  /\ (e.type = "rest") = (p.id = Null)
  /\ e.type = "note" => Pitch(p.id) = e.midi
  /\ p.duration = e.duration

\* C4: for every track of notes inside [minMidi, maxMidi] and of rests, all of positive integer
\* duration, parseABC of the text the encoder writes returns as many events, in order, each with
\* the pitch and the duration of the track's event
RoundTrip ==
  (stage = "parsed" /\ src.kind = "track") =>
    /\ Len(parsed) = Len(src.events)
    /\ \A i \in DOMAIN parsed : i \in DOMAIN src.events /\ SameEvent(src.events[i], parsed[i])

Letters == Range(UpperLetters) \cup Range(LowerLetters)

LetterOctave(l) == IF IsLower(l) THEN 5 ELSE 4

OneNote(l, octave, duration) == <<[id |-> [note |-> ToUpperCase(l), acc |-> "", octave |-> octave], duration |-> duration]>>

\* C5: a letter followed by k lowering marks, k in 0..MaxMarks, decodes to the pitch k octaves below
\* the letter's default octave (4 for uppercase, 5 for lowercase), and followed by k raising marks to
\* k octaves above; the marks are those the encoder writes, so that "C." decodes to C3
OctaveResolution ==
  (stage = "parsed" /\ src.kind = "text") =>
    \A l \in Letters, k \in 0..MaxMarks :
      /\ src.text = <<l>> \o Repeat(LowerMark, k) => parsed = OneNote(l, LetterOctave(l) - k, Num(1))
      /\ src.text = <<l>> \o Repeat(RaiseMark, k) => parsed = OneNote(l, LetterOctave(l) + k, Num(1))

\* C6: every duration string formatAbcDuration writes for a duration of the quarter-unit grid
\* decodes back to that duration: the note C4 written with steps/4 units is parsed as C4 of steps/4 units
DurationResolution ==
  (stage = "parsed" /\ src.kind = "dur") => parsed = OneNote("C", 4, Rat(src.steps, 4))

ExampleParsed == OneNote("C", 4, Num(2)) \o OneNote("E", 4, Num(2)) \o OneNote("G", 4, Num(2)) \o OneNote("C", 5, Num(4))

\* C7: parseABC("C2E2G2c4") returns the four notes C4, E4, G4 of duration 2 and C5 of duration 4,
\* and encoding these four events gives "C2E2G2c4" again
ExampleRoundTrip ==
  (src.kind = "text" /\ src.text = ExampleText) =>
    /\ stage \in {"parsed", "reencoded"} => parsed = ExampleParsed
    /\ stage = "reencoded" => reabc = ExampleText

\* the example has been parsed and written out again
ExampleReEncoded ==
  /\ src.text = <<"C", "2", "E", "2", "G", "2", "c", "4">>
  /\ stage = "reencoded"
  /\ Len(parsed) = 4 /\ Len(reabc) = 8

\* the integers within 1/2 of n/d, the upper one on a tie: round(n/d) for n >= 0, d > 0
NearestInteger(n, d) == CHOOSE k \in 0..((n \div d) + 1) : 2 * k * d - d <= 2 * n /\ 2 * n < 2 * k * d + d

\* duration * m is less than 0.05 away from an integer
NearInteger(duration, m) == \E k \in 0..((duration.n * m) \div duration.d + 1) : 20 * Abs(duration.n * m - k * duration.d) < duration.d

Qualifying(events) == {m \in 1..4 : \A i \in DOMAIN events : NearInteger(events[i].duration, m)}

\* C8: the quantizer selects the smallest m in 1..4 for which every event's duration * m is
\* within 0.05 of an integer, and 4 when there is none
MultiplierMinimal ==
  qstage = "done" =>
    qout.bestMultiplier = (IF Qualifying(qout.events) = {} THEN 4 ELSE Least(Qualifying(qout.events)))

\* the durations 1.5 and 0.5 were converted with the multiplier 2, though 4 qualifies as well
HalvesGiveTwo ==
  /\ qstage = "done"
  /\ Len(qout.events) = 2
  /\ qout.events[1].duration = Rat(3, 2) /\ qout.events[2].duration = Rat(1, 2)
  /\ qout.bestMultiplier = 2
  /\ 4 \in Qualifying(qout.events)

RECURSIVE RoundedDurations(_, _)
RoundedDurations(events, m) ==
  IF events = <<>> THEN <<>>
  ELSE LET r == NearestInteger(Head(events).duration.n * m, Head(events).duration.d)
       IN (IF r = 0 THEN <<>> ELSE <<Num(r)>>) \o RoundedDurations(Tail(events), m)

EmittedDurations == LET p == parseABC(qout.melody) IN [i \in DOMAIN p |-> p[i].duration]

\* C9 as amended: the tempo returned is the header's tempo rounded to an integer, 120 when the
\* header has none, times the multiplier m; every emitted duration is the integer round(duration * m)
RoundedTempoScaling ==
  qstage = "done" =>
    /\ qout.bpm = (IF qin.tempo.n = 0 THEN 120 ELSE NearestInteger(qin.tempo.n, qin.tempo.d)) * qout.bestMultiplier
    /\ EmittedDurations = RoundedDurations(qout.events, qout.bestMultiplier)

\* C9 as stated: the tempo returned is the input tempo times m, every emitted duration round(duration * m)
TempoScaling ==
  (qstage = "done" /\ qin.tempo.n # 0) =>
    /\ qout.bpm * qin.tempo.d = qin.tempo.n * qout.bestMultiplier
    /\ EmittedDurations = RoundedDurations(qout.events, qout.bestMultiplier)

\* a track with a fractional header tempo was converted with a multiplier above 1
FractionalTempoScaled ==
  /\ qstage = "done"
  /\ qin.tempo.d > 1
  /\ qout.bestMultiplier > 1
  /\ Len(qout.melody) > 0

Onsets == {qin.notes[i].ticks : i \in DOMAIN qin.notes}

\* the j-th onset in time
Onset(j) == CHOOSE t \in Onsets : Cardinality({u \in Onsets : u < t}) = j - 1

RECURSIVE EncodedBefore(_, _, _)
EncodedBefore(events, m, k) ==
  IF k <= 1 THEN 0
  ELSE EncodedBefore(events, m, k - 1) + NearestInteger(events[k - 1].duration.n * m, events[k - 1].duration.d)

NotesUpTo(events, k) == Cardinality({i \in 1..k : events[i].type = "note"})

\* C10: every kept note starts as long after the first kept note in the encoded sequence played at
\* the output tempo as in the input played at the input tempo: (encoded durations before it) /
\* outputTempo = (its onset - the first onset, in eighth notes) / inputTempo, each event before it
\* allowed the tolerance 0.05
TimingPreserved ==
  (qstage = "done" /\ qin.tempo.n # 0) =>
    \A k \in DOMAIN qout.events :
      qout.events[k].type = "note" =>
        LET first == CHOOSE i \in DOMAIN qout.events : qout.events[i].type = "note" /\ \A h \in 1..(i - 1) : qout.events[h].type # "note"
            encoded == EncodedBefore(qout.events, qout.bestMultiplier, k) - EncodedBefore(qout.events, qout.bestMultiplier, first)
            ticks == Onset(NotesUpTo(qout.events, k)) - Onset(1)
        IN 20 * Abs(encoded * qin.tempo.n * qin.ppq - 2 * ticks * qout.bpm * qin.tempo.d) <= k * qout.bpm * qin.tempo.d * qin.ppq

\* the pitches of the notes of an encoded text, in order
RECURSIVE NotePitches(_)
NotePitches(events) ==
  IF events = <<>> THEN <<>>
  ELSE (IF Head(events).id = Null THEN <<>> ELSE <<noteNameToMidi(Head(events).id)>>) \o NotePitches(Tail(events))

TextPitches(text) == NotePitches(parseABC(text))

TrackOnsets(track) == {track[i].ticks : i \in DOMAIN track}

PitchesAt(track, t) == {track[i].midi : i \in {j \in DOMAIN track : track[j].ticks = t}}

Greatest(S) == CHOOSE x \in S : \A y \in S : y <= x

\* the onsets of a track in time order, each with the highest (lowest) pitch starting there
RECURSIVE ReducedFrom(_, _, _)
ReducedFrom(track, onsets, highest) ==
  IF onsets = {} THEN <<>>
  ELSE LET t == Least(onsets)
       IN <<IF highest THEN Greatest(PitchesAt(track, t)) ELSE Least(PitchesAt(track, t))>> \o ReducedFrom(track, onsets \ {t}, highest)

Reduced(track, highest) == ReducedFrom(track, TrackOnsets(track), highest)

Reverse(seq) == [i \in DOMAIN seq |-> seq[Len(seq) + 1 - i]]

\* C11 as amended: of the notes sharing an onset exactly one is kept, the highest pitch in the melody
\* role and the lowest in the accompaniment role, whatever the order of the notes in the input
ChordReduction ==
  istage = "navigated" =>
    /\ TextPitches(href.melody) = Reduced(file.midi.tracks[1], TRUE)
    /\ Len(file.midi.tracks) = 2 => TextPitches(href.accompaniment) = Reduced(file.midi.tracks[2], FALSE)

\* C11 as stated: in addition the converted text is the same for the notes in reverse order
ChordReductionAnyOrder ==
  istage = "navigated" =>
    /\ TextPitches(href.melody) = Reduced(file.midi.tracks[1], TRUE)
    /\ Len(file.midi.tracks) = 2 => TextPitches(href.accompaniment) = Reduced(file.midi.tracks[2], FALSE)
    /\ href.melody = convertTrackToAbc(Reverse(file.midi.tracks[1]), file.midi.ppq, minMidi, maxMidi, FALSE)

\* the chord {60, 64}, the lower note first, was converted in both roles: 64 for the melody, 60 for the accompaniment
ChordInBothRoles ==
  /\ istage = "navigated"
  /\ Len(file.midi.tracks) = 2
  /\ file.midi.tracks[1] = <<C4Quarter, E4Quarter>>
  /\ \E i, j \in DOMAIN file.midi.tracks[2] :
       /\ file.midi.tracks[2][i].ticks = file.midi.tracks[2][j].ticks
       /\ file.midi.tracks[2][i].midi = 64 /\ file.midi.tracks[2][j].midi = 60 /\ i < j
  /\ TextPitches(href.melody) = <<64>>
  /\ 60 \in Range(TextPitches(href.accompaniment))

\* a playhead of the model has waited its longest time: no further tick is modelled
Stalled == timeSinceLastNote > MaxIdleFrames * Scale \/ timeSinceLastAccomp > MaxIdleFrames * Scale

\* C12: every run that is started (melody, accompaniment or demo) eventually returns to the
\* menu, when ticks keep coming and the player of a wait-mode run presses the halted notes
RunsReturnToMenu == isGameActive ~> (~isGameActive \/ Stalled)

\* C13: a tick schedules the return to the menu only when both playheads are at the end of
\* their tracks and no note is in flight, and only when none was scheduled before in the run:
\* the finished flag is clear, no timer is pending, and only a restart clears the flag again
CompletionOnce ==
  [][/\ (last'.op = "tick" /\ last'.scheduled) =>
          /\ melodyIndex' >= Len(parsedMelody)
          /\ (Len(parsedAccompaniment) = 0 \/ accompIndex' >= Len(parsedAccompaniment))
          /\ activeNotes' = <<>> /\ last'.spawned = {}
          /\ ~isSongFinished /\ isSongFinished'
          /\ pendingResets = 0 /\ pendingResets' = 1
     /\ (isSongFinished /\ ~isSongFinished') => last'.op \in {"reset", "demo"}
     /\ pendingResets' > pendingResets => (last'.op = "tick" /\ last'.scheduled)]_vars

\* the return was scheduled by the tick after the last note of a run with both tracks left the screen
CompletionScheduled ==
  /\ last.op = "tick" /\ last.scheduled /\ pendingResets = 1
  /\ Len(parsedAccompaniment) > 0 /\ accompIndex = Len(parsedAccompaniment)
  /\ melodyIndex = Len(parsedMelody) /\ isSongFinished

\* C14: in the state that resetGame or startDemo leaves, both playhead indices, both
\* accumulators and both intervals are 0, no note is in flight, the finished flag is clear
\* and the game is active, in demo mode exactly after startDemo
AtomicRestart ==
  last.op \in {"reset", "demo"} =>
    /\ melodyIndex = 0 /\ timeSinceLastNote = 0 /\ timeUntilNextNote = 0
    /\ accompIndex = 0 /\ timeSinceLastAccomp = 0 /\ timeUntilNextAccomp = 0
    /\ activeNotes = <<>> /\ ~isSongFinished
    /\ isGameActive /\ isDemoPlaying = (last.op = "demo")

\* a demo of a song with an accompaniment was started, at half speed with wait mode off
DemoRestarted ==
  /\ last.op = "demo" /\ isDemoPlaying /\ isHalfSpeed /\ ~isWaitMode
  /\ Len(parsedAccompaniment) > 0 /\ accompIndex = 0

\* C15: in a run that is no demo, a note in flight is interactive exactly when it was spawned
\* from the selected track, and autoplay exactly when it was spawned from the other track
RoleAssignment ==
  ~isDemoPlaying =>
    \A i \in DOMAIN activeNotes :
      /\ activeNotes[i].nid.trk \in {"melody", "accompaniment"}
      /\ activeNotes[i].isAccompaniment = (activeNotes[i].nid.trk # selectedTrackType)

\* the accompaniment is played by the player: one of its notes and an autoplay melody note are in flight
BothRolesInFlight ==
  /\ ~isDemoPlaying /\ selectedTrackType = "accompaniment"
  /\ \E i, j \in DOMAIN activeNotes :
       /\ activeNotes[i].nid.trk = "accompaniment" /\ ~activeNotes[i].isAccompaniment
       /\ activeNotes[j].nid.trk = "melody" /\ activeNotes[j].isAccompaniment

\* an interval that is a number greater than 0 (NaN is greater than nothing)
IsPositive(interval) == interval # NeverDue /\ interval > 0

\* C17: once a playhead has consumed an event its interval to the next event is greater
\* than 0: a computed interval that is not positive was replaced by 0.1
IntervalFloor ==
  /\ melodyIndex > 0 => IsPositive(timeUntilNextNote)
  /\ accompIndex > 0 => IsPositive(timeUntilNextAccomp)

\* the notes in flight with note i moved past the stop position, as far as the miss threshold
PastStop(notes, i) == [notes EXCEPT ![i].y = missThreshold]

PitchClipping ==
  (src.kind = "clip" /\ stage = "text") =>
    \E q \in src.lo..src.hi :
      /\ q % 12 = src.events[1].midi % 12
      /\ abc = getABCNoteName(q) \o formatAbcDuration(src.events[1].duration)

\* a pitch more than an octave above a range of exactly one octave was converted
ClippedFromAbove ==
  /\ src.kind = "clip" /\ stage = "text"
  /\ src.hi - src.lo = 11 /\ src.events[1].midi > src.hi + 12
  /\ abc # <<>>

\* the pitch letters and rest characters of a text, in text order
NoteLetters(text) == SelectSeq(text, LAMBDA c : c \in Letters \cup {"z"})

\* C19: parseABC of a text returns one event for each of its characters A-G, a-g and z, in
\* text order, a rest for z and a note named by the letter (or by the letter's flat)
\* otherwise, and nothing for any other character
SilentSkip ==
  (src.kind = "text" /\ stage = "parsed") =>
    LET letters == NoteLetters(src.text)
    IN /\ Len(parsed) = Len(letters)
       /\ \A i \in DOMAIN letters :
            /\ (letters[i] = "z") = (parsed[i].id = Null)
            /\ letters[i] # "z" => parsed[i].id.note \in {ToUpperCase(letters[i]), FlatMap(ToUpperCase(letters[i])).note}

\* a text of two letters around a character of no token was parsed
JunkSkipped ==
  /\ src.kind = "text" /\ stage = "parsed"
  /\ Len(src.text) = 3 /\ src.text[2] \in {"H", " ", "|", "="}
  /\ Len(parsed) = 2 /\ parsed[2].id = Null

\* the first track after the melody that has a note, 0 when there is none
FirstTrackWithNotes(tracks) ==
  LET withNotes == {i \in 2..Len(tracks) : Len(tracks[i]) > 0}
  IN IF withNotes = {} THEN 0 ELSE CHOOSE i \in withNotes : \A j \in withNotes : i <= j

\* C21: the accompaniment of the imported song is the conversion of track 2 or, when track 2
\* has no note, of the next track that has one; it is empty when no track after the first has a note
AccompanimentSource ==
  istage = "navigated" =>
    LET source == FirstTrackWithNotes(file.midi.tracks)
    IN href.accompaniment =
         IF source = 0 THEN <<>>
         ELSE convertTrackToAbc(file.midi.tracks[source], file.midi.ppq, minMidi, maxMidi, TRUE)

\* the duration of an event as the converter of the source quantizes it: in quarter units by
\* convertTrackToAbc, in units by the multiplier converter
Quantized(source, event) ==
  IF source.kind = "short" /\ source.steps = 1 THEN MathRound(event.duration.n, event.duration.d)
  ELSE MathRound(4 * event.duration.n, event.duration.d)

\* C22: every event decoded from a text the converter wrote has a duration greater than 0, and
\* the text has one letter or rest character for each event whose quantized duration is not 0,
\* none for the others
PositiveDurations ==
  (src.kind \in {"track", "itrack", "dur", "clip", "short"} /\ stage = "parsed") =>
    /\ \A i \in DOMAIN parsed : IsFinite(parsed[i].duration) /\ parsed[i].duration.n > 0
    /\ src.kind # "dur" =>
         /\ Len(parsed) = Cardinality({i \in DOMAIN src.events : Quantized(src, src.events[i]) > 0})
         /\ Len(NoteLetters(abc)) = Len(parsed)

\* of a rest too short to be written and a note of half a unit only the note was written
ShortEventOmitted ==
  /\ src.kind = "short" /\ stage = "parsed"
  /\ Len(src.events) = 2 /\ src.events[1] = RestEvent(Rat(1, 10)) /\ src.events[2] = NoteEvent(60, Rat(1, 2))
  /\ Len(parsed) = 1 /\ parsed[1].id # Null

\* the sum of the intervals of the first k events of a track
RECURSIVE SumIntervals(_, _, _)
SumIntervals(track, k, half) ==
  IF k = 0 THEN 0 ELSE SumIntervals(track, k - 1, half) + Interval(track[k].duration, half)

\* a playhead against the effective time it was given since the restart: nothing is consumed
\* before time passes; afterwards the time is the sum of the intervals of the consumed events
\* but the last plus the accumulator, the accumulator is not negative, the interval is that of
\* the last consumed event, and the next event is not yet due
Overflow(track, index, since, until, time) ==
  /\ index = 0 => (time = 0 /\ since = 0)
  /\ index > 0 =>
       /\ time = SumIntervals(track, index - 1, isHalfSpeed) + since
       /\ since >= 0
       /\ until = Interval(track[index].duration, isHalfSpeed)
       /\ (index < Len(track) /\ until # NeverDue) => since < until

\* C23: during a run each playhead consumes event k in the first tick at whose end the effective time given
\* to it since the restart reaches the sum of the intervals of the events before k: consumption
\* subtracts the consumed interval from the accumulator
OverflowPreserved ==
  isGameActive =>
    /\ Overflow(parsedMelody, melodyIndex, timeSinceLastNote, timeUntilNextNote, melodyTime)
    /\ Overflow(parsedAccompaniment, accompIndex, timeSinceLastAccomp, timeUntilNextAccomp, accompTime)

\* a tick consumed the second melody event later than it was due: the overflow is in the accumulator
OverflowKept ==
  /\ last.op = "tick" /\ NoteId("melody", 2) \in last.spawned
  /\ melodyIndex = 2 /\ timeSinceLastNote > 0
  /\ timeUntilNextNote > timeSinceLastNote

\* C29: a tick gives its effective delta to each playhead that is not at its track end (the
\* accumulator grows by it, less the intervals of the events consumed in the tick) and moves
\* every note that stays in flight by SPEED times it; so while both tracks are unfinished the
\* two playheads have been given the same time
UniformDelta ==
  /\ [][last'.op = "tick" =>
          /\ (Len(parsedMelody) > 0 /\ melodyIndex < Len(parsedMelody)) =>
               /\ melodyTime' = melodyTime + last'.eff
               /\ melodyIndex' = melodyIndex => timeSinceLastNote' = timeSinceLastNote + last'.eff
          /\ (Len(parsedAccompaniment) > 0 /\ accompIndex < Len(parsedAccompaniment)) =>
               /\ accompTime' = accompTime + last'.eff
               /\ accompIndex' = accompIndex => timeSinceLastAccomp' = timeSinceLastAccomp + last'.eff
          /\ \A i \in DOMAIN activeNotes : \A j \in DOMAIN activeNotes' :
               activeNotes'[j].nid = activeNotes[i].nid => activeNotes'[j].y = activeNotes[i].y + SPEED * last'.eff
          /\ \A i \in DOMAIN activeNotes :
               (\A j \in DOMAIN activeNotes' : activeNotes'[j].nid # activeNotes[i].nid) =>
                 activeNotes[i].nid \in last'.missed \cup last'.played]_vars
  /\ [](( /\ isGameActive
          /\ Len(parsedMelody) > 0 /\ melodyIndex < Len(parsedMelody)
          /\ Len(parsedAccompaniment) > 0 /\ accompIndex < Len(parsedAccompaniment))
           => melodyTime = accompTime)

\* a shortened tick of a wait-mode run moved an interactive and an autoplay note, both still
\* in flight, and gave its delta to the unfinished melody playhead
BothTracksAdvanced ==
  /\ WaitRun /\ last.op = "tick" /\ last.eff > 0 /\ last.eff < last.raw
  /\ \E i, j \in DOMAIN activeNotes : ~activeNotes[i].isAccompaniment /\ activeNotes[j].isAccompaniment
  /\ melodyIndex < Len(parsedMelody) /\ melodyTime > last.eff
  /\ accompIndex = Len(parsedAccompaniment) /\ accompTime < melodyTime

\* C30: a tick in which wait mode is off, or the run is a demo, or no interactive note is in
\* flight (none at all, or autoplay notes only) takes the raw delta as its effective delta
Passthrough ==
  [][(last'.op = "tick" /\ (~isWaitMode \/ isDemoPlaying \/ Interactive(activeNotes) = {}))
       => last'.eff = last'.raw]_vars

\* a wait-mode tick of a played run that found autoplay notes only and took one of them to
\* the hit line at the full raw delta
AutoplayPassthrough ==
  /\ WaitRun /\ last.op = "tick" /\ last.raw > 0 /\ last.eff = last.raw
  /\ activeNotes # <<>> /\ \A i \in DOMAIN activeNotes : activeNotes[i].isAccompaniment
  /\ last.spawned = {} /\ last.missed = {} /\ last.played # {}

\* C24: a key press in a run removes no note when no interactive note is in flight or when
\* even the nearest interactive note of any lane is farther than HIT_ZONE from the hit line
WavefrontGate ==
  [][(/\ last'.op = "press" /\ isGameActive
      /\ \A i \in Interactive(activeNotes) : Distance(activeNotes[i]) > HIT_ZONE)
       => (activeNotes' = activeNotes /\ last'.hit = NoHit)]_vars

\* a press on the lane of an in-flight interactive note while every interactive note is
\* still outside the window: nothing was hit
PressedTooEarly ==
  /\ isGameActive /\ last.op = "press" /\ last.hit = NoHit
  /\ \E i \in Interactive(activeNotes) : activeNotes[i].targetIndex = last.lane
  /\ \A i \in Interactive(activeNotes) : Distance(activeNotes[i]) > HIT_ZONE
  /\ \E i \in DOMAIN activeNotes : activeNotes[i].isAccompaniment

\* the distance of the nearest interactive note of any lane to the hit line
Wavefront(notes) ==
  IF Interactive(notes) = {} THEN Infinity ELSE Least({Distance(notes[i]) : i \in Interactive(notes)})

\* the interactive notes of the lane inside the window and within the chord tolerance of the wavefront
Candidates(notes, index) ==
  {i \in Interactive(notes) :
     /\ notes[i].targetIndex = index
     /\ Distance(notes[i]) < HIT_ZONE
     /\ Distance(notes[i]) <= Wavefront(notes) + CHORD_TOLERANCE * Scale}

\* C26: a key press in a run that finds no candidate in its lane changes nothing of the game:
\* the notes in flight and their positions, both playheads, the finished flag and the modes
UnmatchedNoOp ==
  [][(last'.op = "press" /\ isGameActive /\ Candidates(activeNotes, last'.lane) = {})
       => /\ last'.hit = NoHit
          /\ UNCHANGED <<activeNotes, melodyIndex, timeSinceLastNote, timeUntilNextNote>>
          /\ UNCHANGED <<accompIndex, timeSinceLastAccomp, timeUntilNextAccomp, melodyTime, accompTime>>
          /\ UNCHANGED <<isSongFinished, pendingResets, isGameActive, isWaitMode, isDemoPlaying>>
          /\ UNCHANGED <<selectedTrackType, isHalfSpeed, parsedMelody, parsedAccompaniment>>]_vars

\* a press on an empty lane while an interactive note of another lane is inside the window
WrongLanePressed ==
  /\ isGameActive /\ last.op = "press" /\ last.hit = NoHit
  /\ \E i \in Interactive(activeNotes) : Distance(activeNotes[i]) < HIT_ZONE /\ activeNotes[i].targetIndex # last.lane
  /\ melodyIndex < Len(parsedMelody) \/ accompIndex < Len(parsedAccompaniment)

\* C27: a key press in a run that finds candidates removes exactly the nearest of them (on a
\* tie the one spawned first); every other note stays in flight, in order and in place, and the
\* playheads are untouched
NearestCandidateHit ==
  [][(last'.op = "press" /\ isGameActive /\ Candidates(activeNotes, last'.lane) # {})
       => /\ \E k \in Candidates(activeNotes, last'.lane) :
               /\ \A j \in Candidates(activeNotes, last'.lane) :
                    \/ Distance(activeNotes[k]) < Distance(activeNotes[j])
                    \/ Distance(activeNotes[k]) = Distance(activeNotes[j]) /\ k <= j
               /\ last'.hit = activeNotes[k]
               /\ activeNotes' = [i \in 1..(Len(activeNotes) - 1) |-> IF i < k THEN activeNotes[i] ELSE activeNotes[i + 1]]
          /\ UNCHANGED <<melodyIndex, timeSinceLastNote, timeUntilNextNote, melodyTime>>
          /\ UNCHANGED <<accompIndex, timeSinceLastAccomp, timeUntilNextAccomp, accompTime>>
          /\ UNCHANGED <<isSongFinished, pendingResets, isGameActive>>]_vars

\* a hit that chose between two candidates of the pressed lane at the same distance
TieHit ==
  /\ isGameActive /\ last.op = "press" /\ last.hit # NoHit
  /\ \E i \in Interactive(activeNotes) :
       /\ activeNotes[i].targetIndex = last.lane
       /\ Distance(activeNotes[i]) = Distance(last.hit)

\* a press removed nothing that is outside the window or farther than wavefront + CHORD_TOLERANCE
WithinTolerance(notes, hit, lane) ==
  /\ hit # NoHit =>
       /\ hit.targetIndex = lane /\ ~hit.isAccompaniment
       /\ Distance(hit) < HIT_ZONE
       /\ Distance(hit) <= Wavefront(notes) + CHORD_TOLERANCE * Scale
  /\ \A i \in DOMAIN notes :
       (Distance(notes[i]) >= HIT_ZONE \/ Distance(notes[i]) > Wavefront(notes) + CHORD_TOLERANCE * Scale)
         => hit # notes[i]

\* the hit note belongs to a later event than an interactive note of another lane that is the wavefront
LaterThanWavefront(notes, hit) ==
  /\ hit # NoHit
  /\ \E i \in Interactive(notes) :
       /\ notes[i].targetIndex # hit.targetIndex
       /\ Distance(notes[i]) = Wavefront(notes)
       /\ notes[i].nid.ev < hit.nid.ev

AtStop(notes) == {i \in Interactive(notes) : notes[i].y = stopY}

Autoplay(notes) == {i \in DOMAIN notes : notes[i].isAccompaniment}

\* C31: an autoplay note leaves in the first tick after which its leading edge is on or past
\* the hit line, as a played note and not as a missed one; a key press leaves every autoplay
\* note where it is; so every autoplay note in flight is strictly before that threshold
AutoplayLifeCycle ==
  /\ [](\A i \in Autoplay(activeNotes) : activeNotes[i].y + NOTE_HEIGHT * Scale < hitLineY)
  /\ [][last'.op = "tick" =>
          /\ \A i \in Autoplay(activeNotes) :
               IF activeNotes[i].y + SPEED * last'.eff + NOTE_HEIGHT * Scale >= hitLineY
               THEN /\ activeNotes[i].nid \in last'.played
                    /\ activeNotes[i].nid \notin Ids(activeNotes')
               ELSE activeNotes[i].nid \in Ids(activeNotes')
          /\ \A i \in DOMAIN activeNotes' : i \in Autoplay(activeNotes') => activeNotes'[i].nid \notin last'.missed
          /\ \A i \in Autoplay(activeNotes) : activeNotes[i].nid \notin last'.missed]_vars
  /\ [][(last'.op = "press" /\ isGameActive) =>
          /\ last'.hit # NoHit => ~last'.hit.isAccompaniment
          /\ \A i \in Autoplay(activeNotes) : \E j \in DOMAIN activeNotes' : activeNotes'[j] = activeNotes[i]]_vars

\* a tick of a played run that sounded an autoplay note while an interactive note, since hit
\* or not, was in flight with it
AutoplaySounded ==
  /\ isGameActive /\ ~isDemoPlaying
  /\ last.op = "tick" /\ last.played # {} /\ last.spawned = {}
  /\ Interactive(activeNotes) # {}

\* the ways in which the step removed the note nid from the notes in flight
Exits(nid) ==
  {w \in {"hit", "miss", "autoplay", "restart"} :
     \/ w = "hit" /\ last'.op = "press" /\ last'.hit # NoHit /\ last'.hit.nid = nid
     \/ w = "miss" /\ last'.op = "tick" /\ nid \in last'.missed
     \/ w = "autoplay" /\ last'.op = "tick" /\ nid \in last'.played
     \/ w = "restart" /\ last'.op \in {"reset", "demo"}}

\* C32: in a run that is no demo no interactive note in flight is beyond the miss threshold:
\* the tick that moves one past it removes it, and no other; a note in flight is one event of
\* its track, enters by a spawn of the tick that consumes the event, and leaves in exactly one
\* of four ways: hit, miss, autoplay or restart
MissRule ==
  /\ [](/\ ~isDemoPlaying => \A i \in Interactive(activeNotes) : activeNotes[i].y <= missThreshold
        /\ \A i, j \in DOMAIN activeNotes : activeNotes[i].nid = activeNotes[j].nid => i = j)
  /\ [][(last'.op = "tick" /\ ~isDemoPlaying) =>
          \A i \in Interactive(activeNotes) :
            IF activeNotes[i].y + SPEED * last'.eff > missThreshold
            THEN activeNotes[i].nid \in last'.missed /\ activeNotes[i].nid \notin Ids(activeNotes')
            ELSE activeNotes[i].nid \notin last'.missed /\ activeNotes[i].nid \in Ids(activeNotes')]_vars
  /\ [][/\ \A i \in DOMAIN activeNotes :
             activeNotes[i].nid \notin Ids(activeNotes') => Cardinality(Exits(activeNotes[i].nid)) = 1
        /\ \A j \in DOMAIN activeNotes' :
             activeNotes'[j].nid \notin Ids(activeNotes) =>
               /\ last'.op = "tick" /\ activeNotes'[j].nid \in last'.spawned
               /\ IF activeNotes'[j].nid.trk = "melody"
                  THEN melodyIndex < activeNotes'[j].nid.ev /\ activeNotes'[j].nid.ev <= melodyIndex'
                  ELSE accompIndex < activeNotes'[j].nid.ev /\ activeNotes'[j].nid.ev <= accompIndex']_vars

\* a tick of a played run without wait mode that took an interactive note past the miss
\* threshold and removed it, other notes staying in flight
NoteMissed ==
  /\ isGameActive /\ ~isDemoPlaying /\ ~isWaitMode
  /\ last.op = "tick" /\ last.missed # {}
  /\ activeNotes # <<>>

\* the notes that consuming the events index + 1 .. index' of a track spawns: one for each
\* event that is a note on a key of the keyboard
SpawnedBy(track, trk, from, to) ==
  {NoteId(trk, k) : k \in {e \in (from + 1)..to : track[e].id # Null /\ KeyIndex(track[e].id) # -1}}

\* C33: each playhead index stays between 0 and the length of its track and only a restart
\* lowers it; a tick consumes the events index + 1 .. index' in order and adds exactly one
\* note in flight for each of them that is a note on a key, none for a rest
PlayheadProgress ==
  /\ [](/\ 0 <= melodyIndex /\ melodyIndex <= Len(parsedMelody)
        /\ 0 <= accompIndex /\ accompIndex <= Len(parsedAccompaniment))
  /\ [][/\ last'.op \notin {"reset", "demo"} => (melodyIndex' >= melodyIndex /\ accompIndex' >= accompIndex)
        /\ last'.op \notin {"reset", "demo", "tick"} => (melodyIndex' = melodyIndex /\ accompIndex' = accompIndex)
        /\ last'.op = "tick" =>
             /\ last'.spawned = SpawnedBy(parsedMelody, "melody", melodyIndex, melodyIndex')
                                  \cup SpawnedBy(parsedAccompaniment, "accompaniment", accompIndex, accompIndex')
             /\ Len(activeNotes') = Len(activeNotes) + Cardinality(last'.spawned)
                                      - Cardinality(last'.missed \cup last'.played)
             /\ \A j \in DOMAIN activeNotes' :
                  activeNotes'[j].nid \in last'.spawned =>
                    LET track == IF activeNotes'[j].nid.trk = "melody" THEN parsedMelody ELSE parsedAccompaniment
                    IN activeNotes'[j].targetIndex = KeyIndex(track[activeNotes'[j].nid.ev].id)]_vars

\* a tick that consumed a note that is no key of the keyboard and spawned nothing for it
OffKeyboardConsumed ==
  /\ isGameActive /\ last.op = "tick" /\ last.spawned = {}
  /\ melodyIndex > 0 /\ KeyIndex(parsedMelody[melodyIndex].id) = -1 /\ parsedMelody[melodyIndex].id # Null
  /\ timeSinceLastNote < MaxRawFrames * Scale

\* the pitch of an id in semitones, 12 to the octave, C of octave -1 being 0
Semitone(id) == 12 * (id.octave + 1) + IndexOf(ORDERED_NOTE_NAMES, <<id.note, id.acc>>) - 1

\* C34: parseABC of a letter with a flat before it (and octave marks after it) returns the id
\* one semitone below the id of the letter without the flat, spelled with a sharp or no
\* accidental: B of the octave below for C flat, E of the same octave for F flat; no event of
\* parseABC has a flat; and the name the encoder writes for a pitch is read as an id of the
\* same pitch class
FlatCanonical ==
  stage = "parsed" =>
    /\ \A i \in DOMAIN parsed : parsed[i].id # Null => parsed[i].id.acc \in {"", "#"}
    /\ (src.kind = "text" /\ abc \in LetterTexts /\ Head(abc) = "_") =>
         LET plain == parseABC(Tail(abc))
         IN /\ Len(parsed) = 1 /\ Len(plain) = 1
            /\ <<parsed[1].id.note, parsed[1].id.acc>> \in Range(ORDERED_NOTE_NAMES)
            /\ Semitone(parsed[1].id) = Semitone(plain[1].id) - 1
            /\ plain[1].id.note = "C" => (parsed[1].id.note = "B" /\ parsed[1].id.octave = plain[1].id.octave - 1)
            /\ plain[1].id.note = "F" => (parsed[1].id.note = "E" /\ parsed[1].id.octave = plain[1].id.octave)
    /\ src.kind = "clip" =>
         /\ Len(parsed) = 1
         /\ <<parsed[1].id.note, parsed[1].id.acc>> \in Range(ORDERED_NOTE_NAMES)
         /\ Semitone(parsed[1].id) % 12 = src.events[1].midi % 12

\* a C flat with an octave mark was read as the B of the octave below
FlatCRead ==
  /\ stage = "parsed" /\ src.kind = "text" /\ abc = <<"_", "c", ",">>
  /\ parsed = <<[id |-> [note |-> "B", acc |-> "", octave |-> 3], duration |-> Num(1)]>>

\* the durations, in quarter units, of the rests of a text the converter wrote:
\* z is 4, zN is 4N, z~ is 2, zN~2 is 2N, z~4 is 1, zN~4 is N
RECURSIVE WrittenRests(_)
WrittenRests(text) ==
  IF text = <<>> THEN <<>>
  ELSE IF Head(text) # "z" THEN WrittenRests(Tail(text))
  ELSE LET rest == Tail(text)
           n == SpanLen(rest, Range(Digits))
           num == IF n = 0 THEN 1 ELSE DigitsValue(rest, 0)
           after == Drop(rest, n)
           marked == after # <<>> /\ Head(after) = FractionMark
           d == IF marked THEN SpanLen(Tail(after), Range(Digits)) ELSE 0
           den == IF ~marked THEN 1 ELSE IF d = 0 THEN 2 ELSE DigitsValue(Tail(after), 0)
       IN <<(4 * num) \div den>> \o WrittenRests(Drop(after, (IF marked THEN 1 ELSE 0) + d))

\* the ticks from the end of each kept note to the onset of the next kept note
Gaps(kept) == [i \in 1..(Len(kept) - 1) |-> kept[i + 1].ticks - (kept[i].ticks + kept[i].durationTicks)]

\* the notes convertTrackToAbc keeps of a track
Kept(track, isAccompaniment) == UniqueNotes(SortTrack(track, isAccompaniment), -1)

\* the rests, in quarter units, that gaps above the noise floor of 0.05 unit call for,
\* each of the duration of its gap; 0 stands for a gap that is no multiple of a quarter unit
RestsForGaps(gaps, ppq) ==
  LET wide == SelectSeq(gaps, LAMBDA g : 40 * g > ppq)
  IN [i \in DOMAIN wide |-> IF (8 * wide[i]) % ppq = 0 THEN (8 * wide[i]) \div ppq ELSE 0]

\* the rests, in quarter units, of gaps above the noise floor, each gap rounded to the
\* nearest quarter unit and left out when it rounds to 0
RoundedRestsForGaps(gaps, ppq) ==
  LET wide == SelectSeq(gaps, LAMBDA g : 40 * g > ppq /\ MathRound(8 * g, ppq) > 0)
  IN [i \in DOMAIN wide |-> MathRound(8 * wide[i], ppq)]

RECURSIVE WrittenDurations(_)
WrittenDurations(text) ==
  IF text = <<>> THEN <<>>
  ELSE IF Head(text) \notin Letters \cup {"z"} THEN WrittenDurations(Tail(text))
  ELSE LET rest == Drop(Tail(text), SpanLen(Tail(text), {LowerMark, RaiseMark}))
           n == SpanLen(rest, Range(Digits))
           num == IF n = 0 THEN 1 ELSE DigitsValue(rest, 0)
           after == Drop(rest, n)
           marked == after # <<>> /\ Head(after) = FractionMark
           d == IF marked THEN SpanLen(Tail(after), Range(Digits)) ELSE 0
           den == IF ~marked THEN 1 ELSE IF d = 0 THEN 2 ELSE DigitsValue(Tail(after), 0)
       IN <<(4 * num) \div den>> \o WrittenDurations(Drop(after, (IF marked THEN 1 ELSE 0) + d))

\* the quarter units formatAbcDuration writes for each event, 0 for an event it leaves out
QuarterSteps(events) ==
  [j \in DOMAIN events |-> IF MathRound(4 * events[j].duration.n, events[j].duration.d) > 0
                           THEN MathRound(4 * events[j].duration.n, events[j].duration.d) ELSE 0]

RECURSIVE SumSeq(_)
SumSeq(q) == IF q = <<>> THEN 0 ELSE Head(q) + SumSeq(Tail(q))

\* the quarter units written for the kept notes before note i and their rests
RECURSIVE EncodedOnset(_, _, _)
EncodedOnset(kept, i, ppq) ==
  IF i <= 1 THEN 0
  ELSE EncodedOnset(kept, i - 1, ppq) + SumSeq(QuarterSteps(SlotEvents(kept, i - 1, ppq)))

\* the time slot of kept note i in ticks: to the next kept onset, its own duration for the last
SlotTicks(kept, i) == IF i < Len(kept) THEN kept[i + 1].ticks - kept[i].ticks ELSE kept[i].durationTicks

RECURSIVE WrittenFrom(_, _, _)
WrittenFrom(kept, i, ppq) ==
  IF i > Len(kept) THEN <<>>
  ELSE SelectSeq(QuarterSteps(SlotEvents(kept, i, ppq)), LAMBDA k : k > 0) \o WrittenFrom(kept, i + 1, ppq)

\* C36: the durations written for a kept note and the rest after it add up to the note's time
\* slot rounded to the quarter unit, and the onset of every kept note in the written melody,
\* counted from the first kept note, is within a quarter unit of its onset in the file
TimelineSync ==
  istage = "navigated" =>
    LET kept == Kept(file.midi.tracks[1], FALSE)
        ppq == file.midi.ppq
    IN /\ WrittenDurations(href.melody) = WrittenFrom(kept, 1, ppq)
       /\ \A i \in DOMAIN kept :
            /\ SumSeq(QuarterSteps(SlotEvents(kept, i, ppq))) = MathRound(8 * SlotTicks(kept, i), ppq)
            /\ Abs(ppq * EncodedOnset(kept, i, ppq) - 8 * (kept[i].ticks - kept[1].ticks)) <= ppq

DemoIgnoresInput ==
  [][/\ (last'.op = "press" /\ isGameActive /\ isDemoPlaying) =>
          (activeNotes' = activeNotes /\ last'.hit = NoHit)
     /\ isDemoPlaying =>
          \A i \in DOMAIN activeNotes :
            activeNotes[i].nid \notin Ids(activeNotes') => Exits(activeNotes[i].nid) \subseteq {"autoplay", "restart"}]_vars

\* C39: from the tick that schedules the return-to-idle callback until the callback fires the
\* run stays active and finished, so no restart (menu button or key press) happens in between,
\* one callback at most is pending, and the callback ends the run that scheduled it
GraceDelayIsolation ==
  /\ [](pendingResets > 0 => (pendingResets = 1 /\ isGameActive /\ isSongFinished))
  /\ [][/\ pendingResets > 0 => (last'.op \notin {"reset", "demo"} /\ (isGameActive' \/ last'.op = "timer"))
        /\ last'.op = "timer" =>
              (isGameActive /\ isSongFinished /\ ~isGameActive' /\ pendingResets' = 0 /\ UNCHANGED <<isDemoPlaying, selectedTrackType, melodyIndex, accompIndex>>)
        /\ (~isGameActive /\ isGameActive') => (pendingResets = 0 /\ last'.op \in {"reset", "demo"})]_vars

\* a key was pressed while the callback was pending, and the run went on to its end
PressDuringGrace == pendingResets = 1 /\ last.op = "press" /\ isGameActive

\* the decoded track a note in flight comes from
TrackOfNote(n) == IF n.nid.trk = "melody" THEN parsedMelody ELSE parsedAccompaniment

\* SPEED times the sum of the intervals of the events from the earlier note up to the later one
IdealSpacing(earlier, later) ==
  SPEED * (SumIntervals(TrackOfNote(earlier), later.nid.ev - 1, isHalfSpeed) - SumIntervals(TrackOfNote(earlier), earlier.nid.ev - 1, isHalfSpeed))

\* the pairs of notes in flight that come from the same track, the earlier event first
TrackPairs(notes) ==
  {p \in (DOMAIN notes) \X (DOMAIN notes) : notes[p[1]].nid.trk = notes[p[2]].nid.trk /\ notes[p[1]].nid.ev < notes[p[2]].nid.ev}

\* C40: in every state the positions of two notes in flight of the same track differ by SPEED
\* times the sum of the intervals of the events from the earlier one up to the later one, also
\* when the raw delta varies or wait mode clamps it
SpacingPreserved ==
  \A p \in TrackPairs(activeNotes) :
    activeNotes[p[1]].y - activeNotes[p[2]].y = IdealSpacing(activeNotes[p[1]], activeNotes[p[2]])

\* C20: a file without a track makes the conversion fail: nothing is navigated to, the song of the
\* URL stays as it was, the error is reported once, the loading text is hidden and the menu is back
NoTrackFailure ==
  /\ istage = "navigated" => Len(file.midi.tracks) > 0
  /\ istage = "failed" =>
       /\ Len(file.midi.tracks) = 0
       /\ href = DemoSong
       /\ alerts = 1
       /\ ~loadingVisible /\ menuVisible
  /\ (istage = "parsing" /\ Len(file.midi.tracks) = 0) => href = DemoSong /\ loadingVisible

\* the import of a file without a track has failed
TracklessImportFailed ==
  /\ istage = "failed"
  /\ file.midi.tracks = <<>>
  /\ file.name = "song"
  /\ alerts > 0

====
